---- MODULE Spec2Model ----
(***************************************************************************)
(* A model of clox (src/clox): the hash table, the string intern table,    *)
(* the allocator and mark-sweep collector, the single-pass compiler and    *)
(* the bytecode virtual machine.                                           *)
(*                                                                         *)
(* Conventions.                                                            *)
(*  - A C string is the sequence of its bytes (<<97>> is "a").             *)
(*  - A pointer to a heap object is the object's index in m.heap; NULL is  *)
(*    0.  free() sets the object's `freed` flag and leaves the bytes in    *)
(*    place, which is what the freed memory holds until it is reused.      *)
(*  - A pointer into vm.stack is the slot index (0 is vm.stack itself).    *)
(*  - A uint32_t is kept as two 16-bit halves [hi, lo], so that FNV-1a     *)
(*    wraps modulo 2^32 exactly as the C code does.                        *)
(*  - The whole C state is one record m (the machine): m.heap, m.vm (the   *)
(*    global `vm`), m.parser, m.scanner, m.compilers (the chain that the   *)
(*    global `current` heads, innermost last).  A C function f(args) that  *)
(*    changes state is an operator f(m, args) that yields the machine      *)
(*    after the call; its return value, if any, is left in m.ret.          *)
(*  - Undefined behaviour that the C code can run into is recorded in      *)
(*    m.ub; a machine with m.ub set takes no further step.                 *)
(***************************************************************************)
EXTENDS Integers, Sequences, FiniteSets, TLC

VARIABLES
    m,          \* the machine
    sess,       \* the driver: the lines fed to interpret() and its results
    shadow      \* SpecTable: the finite map the table is compared with

vars == <<m, sess, shadow>>

NULL == 0

(***************************************************************************)
(* Values (value.h).                                                       *)
(***************************************************************************)
NIL_VAL == [type |-> "VAL_NIL"]
BOOL_VAL(b) == [type |-> "VAL_BOOL", boolean |-> b]
NUMBER_VAL(n) == [type |-> "VAL_NUMBER", number |-> n]
OBJ_VAL(o) == [type |-> "VAL_OBJ", obj |-> o]

IS_BOOL(v) == v.type = "VAL_BOOL"
IS_NIL(v) == v.type = "VAL_NIL"
IS_NUMBER(v) == v.type = "VAL_NUMBER"
IS_OBJ(v) == v.type = "VAL_OBJ"

valuesEqual(a, b) ==
    IF a.type # b.type THEN FALSE
    ELSE CASE a.type = "VAL_BOOL" -> a.boolean = b.boolean
           [] a.type = "VAL_NIL" -> TRUE
           [] a.type = "VAL_NUMBER" -> a.number = b.number
           [] a.type = "VAL_OBJ" -> a.obj = b.obj

(***************************************************************************)
(* 32-bit unsigned arithmetic on halves, and FNV-1a (object.c:40-47).      *)
(***************************************************************************)
\* bit p (a power of two) of a ^ b
XorBit(a, b, p) == (((a \div p) + (b \div p)) % 2) * p

\* a ^ b for two bytes
Xor(a, b) ==
    XorBit(a, b, 1) + XorBit(a, b, 2) + XorBit(a, b, 4) + XorBit(a, b, 8)
    + XorBit(a, b, 16) + XorBit(a, b, 32) + XorBit(a, b, 64)
    + XorBit(a, b, 128)

\* 2166136261u = 0x811C9DC5
FnvOffsetBasis == [hi |-> 33052, lo |-> 40389]

\* hash ^= (uint8_t)byte
HashXorByte(h, byte) ==
    [hi |-> h.hi, lo |-> (h.lo - (h.lo % 256)) + Xor(h.lo % 256, byte)]

\* hash *= 16777619 (0x01000193 = 2^24 + 403), modulo 2^32
HashMulPrime(h) ==
    LET low == h.lo * 403
    IN  [lo |-> low % 65536,
         hi |-> ((h.hi * 403) + (low \div 65536) + ((h.lo % 256) * 256)) % 65536]

\* the hash after the loop of hashString has taken the first n bytes
RECURSIVE hashFrom(_, _)
hashFrom(key, n) ==
    IF n = 0 THEN FnvOffsetBasis
    ELSE HashMulPrime(HashXorByte(hashFrom(key, n - 1), key[n]))

hashString(key) == hashFrom(key, Len(key))

\* hash % capacity for a uint32_t hash and 0 < capacity < 2^15
HashMod(h, capacity) ==
    (((h.hi % capacity) * (65536 % capacity)) + h.lo) % capacity

(***************************************************************************)
(* memory.h and the sizes of the C types on an LP64 target.                *)
(***************************************************************************)
GROW_CAPACITY(capacity) == IF capacity < 8 THEN 8 ELSE capacity * 2

sizeof(T) ==
    CASE T = "char" -> 1
      [] T = "uint8_t" -> 1
      [] T = "int" -> 4
      [] T = "ObjUpvalue*" -> 8
      [] T = "Value" -> 16
      [] T = "Entry" -> 24
      [] T = "ObjNative" -> 24
      [] T = "ObjString" -> 40
      [] T = "ObjClosure" -> 40
      [] T = "ObjUpvalue" -> 48
      [] T = "ObjFunction" -> 72
      [] T = "ObjClass" -> 48
      [] T = "ObjInstance" -> 48
      [] T = "ObjBoundMethod" -> 40

(***************************************************************************)
(* Heap objects (object.h).  Every object starts with the Obj header:      *)
(* type, isMarked, next.  allocateObject (object.c:15-21) writes type and  *)
(* next and leaves isMarked as malloc returned it: `indeterminate` says    *)
(* that isMarked has not been written since the allocation.                *)
(***************************************************************************)
Obj(type, next) ==
    [type |-> type, isMarked |-> FALSE, indeterminate |-> TRUE,
     next |-> next, freed |-> FALSE]

\* initChunk (chunk.c:5-12), initValueArray (value.c:8-12)
EmptyChunk ==
    [count |-> 0, capacity |-> 0, code |-> <<>>, lines |-> <<>>,
     constants |-> [capacity |-> 0, count |-> 0, values |-> <<>>]]

\* &upvalue->closed, as opposed to a stack slot index
ClosedCell == -1

\* The machine has run into undefined behaviour: what the program does from
\* there on is not defined, and no operation below acts on such a machine.
Halted(mm) == mm.ub # ""

\* A call of a function of the program. Every call goes through Invoke, which
\* selects the definition by name; a[i] is the i-th argument of the call.
RECURSIVE Invoke(_, _)


(***************************************************************************)
(* The hash table (table.c).  entries[i + 1] models entries[i].  A table   *)
(* is addressed by the name of the vm field that holds it.                 *)
(***************************************************************************)
Entry(key, value) == [key |-> key, value |-> value]

\* initTable (table.c:13-17)
EmptyTable == [count |-> 0, capacity |-> 0, entries |-> <<>>]

\* The probe loop of findEntry.  The C loop has no exit when no slot is
\* truly empty and the key is absent: that run never returns, which the
\* model reports as -1 after a full cycle.
RECURSIVE findEntryFrom(_, _, _, _, _, _)
findEntryFrom(entries, capacity, key, index, tombstone, steps) ==
    LET entry == entries[index + 1]
        next == (index + 1) % capacity
    IN  IF steps = capacity THEN -1
        ELSE IF entry.key = NULL
        THEN IF IS_NIL(entry.value)
             THEN (IF tombstone # -1 THEN tombstone ELSE index)
             ELSE findEntryFrom(entries, capacity, key, next,
                                IF tombstone = -1 THEN index ELSE tombstone,
                                steps + 1)
        ELSE IF entry.key = key THEN index
        ELSE findEntryFrom(entries, capacity, key, next, tombstone, steps + 1)

findEntry(h, entries, capacity, key) ==
    findEntryFrom(entries, capacity, key,
                  HashMod(h[key].hash, capacity), -1, 0)

tableGet(h, t, key) ==
    IF t.count = 0 THEN [found |-> FALSE, value |-> NIL_VAL]
    ELSE LET e == findEntry(h, t.entries, t.capacity, key)
         IN  IF t.entries[e + 1].key = NULL
             THEN [found |-> FALSE, value |-> NIL_VAL]
             ELSE [found |-> TRUE, value |-> t.entries[e + 1].value]

\* tableDelete that empties the slot instead of leaving a tombstone
tableDeleteEmptiesSlot(h, t, key) ==
    IF t.count = 0 THEN [table |-> t, deleted |-> FALSE]
    ELSE LET e == findEntry(h, t.entries, t.capacity, key)
         IN  IF t.entries[e + 1].key = NULL
             THEN [table |-> t, deleted |-> FALSE]
             ELSE [table |-> [t EXCEPT !.entries[e + 1] = Entry(NULL, NIL_VAL)],
                   deleted |-> TRUE]

\* tableDelete that reports the deletion and leaves the entry in place
tableDeleteKeepsEntry(h, t, key) ==
    IF t.count = 0 THEN [table |-> t, deleted |-> FALSE]
    ELSE LET e == findEntry(h, t.entries, t.capacity, key)
         IN  [table |-> t, deleted |-> t.entries[e + 1].key # NULL]

\* tableDelete on the table value; deleted is the function's result.
tableDelete(h, t, key) ==
    IF t.count = 0 THEN [table |-> t, deleted |-> FALSE]
    ELSE LET e == findEntry(h, t.entries, t.capacity, key)
         IN  IF t.entries[e + 1].key = NULL
             THEN [table |-> t, deleted |-> FALSE]
             ELSE [table |-> [t EXCEPT !.entries[e + 1] =
                                    Entry(NULL, BOOL_VAL(TRUE))],
                   deleted |-> TRUE]

\* The probe loop of tableFindString; -1 when the loop never returns.
RECURSIVE tableFindStringFrom(_, _, _, _, _, _)
tableFindStringFrom(h, t, chars, hash, index, steps) ==
    LET entry == t.entries[index + 1]
    IN  IF steps = t.capacity THEN -1
        ELSE IF entry.key = NULL /\ IS_NIL(entry.value) THEN NULL
        ELSE IF /\ entry.key # NULL
                /\ Len(h[entry.key].chars) = Len(chars)
                /\ h[entry.key].hash = hash
                /\ h[entry.key].chars = chars
        THEN entry.key
        ELSE tableFindStringFrom(h, t, chars, hash,
                                 (index + 1) % t.capacity, steps + 1)

tableFindString(h, t, chars, hash) ==
    IF t.count = 0 THEN NULL
    ELSE tableFindStringFrom(h, t, chars, hash, HashMod(hash, t.capacity), 0)

\* The copy loop of adjustCapacity: old entry i onwards into `entries`.
RECURSIVE adjustCopy(_, _, _, _, _, _)
adjustCopy(h, old, i, entries, capacity, count) ==
    IF i > Len(old) THEN [entries |-> entries, count |-> count]
    ELSE IF old[i].key = NULL
    THEN adjustCopy(h, old, i + 1, entries, capacity, count)
    ELSE LET dest == findEntry(h, entries, capacity, old[i].key)
         IN  adjustCopy(h, old, i + 1,
                        [entries EXCEPT ![dest + 1] = old[i]],
                        capacity, count + 1)

\* table->count + 1 > table->capacity * TABLE_MAX_LOAD, with 0.75 = 3/4
\* the test of tableSet with a maximal load of 1
tableMustGrowWhenFull(t) == t.count + 1 > t.capacity

tableMustGrow(t) == (t.count + 1) * 4 > t.capacity * 3

(***************************************************************************)
(* Reachability in the object graph, for stating what a collection must    *)
(* keep: the roots of vm.c/compiler.c and the references each object kind  *)
(* holds (object.h).                                                       *)
(***************************************************************************)
ValueObjs(v) == IF IS_OBJ(v) THEN {v.obj} ELSE {}

RECURSIVE UpvalueList(_, _)
UpvalueList(h, upvalue) ==
    IF upvalue = NULL THEN <<>>
    ELSE <<upvalue>> \o UpvalueList(h, h[upvalue].nextUpvalue)

Roots(mm) ==
    UNION {
        UNION {ValueObjs(mm.vm.stack[i]) : i \in 1..mm.vm.stackTop},
        {mm.vm.frames[i].closure : i \in 1..mm.vm.frameCount},
        {UpvalueList(mm.heap, mm.vm.openUpvalues)[i] :
            i \in 1..Len(UpvalueList(mm.heap, mm.vm.openUpvalues))},
        UNION {({mm.vm.globals.entries[i].key} \ {NULL})
                  \cup ValueObjs(mm.vm.globals.entries[i].value) :
               i \in 1..mm.vm.globals.capacity},
        {mm.compilers[i].function : i \in 1..Len(mm.compilers)} }

\* the objects a table refers to
TableObjs(t) ==
    UNION {({t.entries[i].key} \ {NULL}) \cup ValueObjs(t.entries[i].value) :
           i \in 1..t.capacity}

Refs(h, o) ==
    CASE h[o].type = "OBJ_CLOSURE" ->
            {h[o].function}
            \cup ({h[o].upvalues[i] : i \in 1..h[o].upvalueCount} \ {NULL})
      [] h[o].type = "OBJ_FUNCTION" ->
            ({h[o].name} \ {NULL})
            \cup UNION {ValueObjs(h[o].chunk.constants.values[i]) :
                        i \in 1..h[o].chunk.constants.count}
      [] h[o].type = "OBJ_UPVALUE" -> ValueObjs(h[o].closed)
      [] h[o].type = "OBJ_CLASS" -> {h[o].name} \cup TableObjs(h[o].methods)
      [] h[o].type = "OBJ_INSTANCE" -> {h[o].klass} \cup TableObjs(h[o].fields)
      [] h[o].type = "OBJ_BOUND_METHOD" ->
            {h[o].method} \cup ValueObjs(h[o].receiver)
      [] OTHER -> {}

RECURSIVE ReachFrom(_, _, _)
ReachFrom(h, seen, frontier) ==
    IF frontier = {} THEN seen
    ELSE LET new == (UNION {Refs(h, o) : o \in frontier}) \ seen
         IN  ReachFrom(h, seen \cup new, new)

Reachable(mm) == ReachFrom(mm.heap, Roots(mm), Roots(mm))

\* The objects on the allocation list vm.objects: the first n from `object`
\* on, and the one after them.  The lists are walked by halves.
RECURSIVE ObjectWalk(_, _, _)
ObjectWalk(h, object, n) ==
    IF object = NULL \/ n = 0 THEN [seen |-> {}, rest |-> object]
    ELSE IF n = 1 THEN [seen |-> {object}, rest |-> h[object].next]
    ELSE LET first == ObjectWalk(h, object, n \div 2)
             second == ObjectWalk(h, first.rest, n - (n \div 2))
         IN  [seen |-> first.seen \cup second.seen, rest |-> second.rest]

ObjectList(h, object) == ObjectWalk(h, object, Len(h)).seen

(***************************************************************************)
(* The collector (memory.c).  m.junk is the value an isMarked byte that    *)
(* was never written reads as; it is chosen afresh for every step.  The    *)
(* loops over arrays are evaluated by halves, in the order of the code.    *)
(***************************************************************************)
IsMarked(mm, object) ==
    IF mm.heap[object].indeterminate THEN mm.junk
    ELSE mm.heap[object].isMarked

markObject(mm, object) ==
    IF mm.ub # "" THEN mm ELSE
    IF object = NULL THEN mm
    ELSE IF IsMarked(mm, object) THEN mm
    ELSE [mm EXCEPT
            !.vm.grayCapacity =
                IF @ < Len(mm.vm.grayStack) + 1 THEN GROW_CAPACITY(@) ELSE @,
            !.vm.grayStack = Append(@, object),
            !.heap[object].isMarked = TRUE,
            !.heap[object].indeterminate = FALSE]

markValue(mm, value) ==
    IF mm.ub # "" THEN mm ELSE
    IF IS_OBJ(value) THEN markObject(mm, value.obj) ELSE mm

\* markValue on values[i..n]: markArray, and the stack loop of markRoots
markValues(mm, values, i, n) == Invoke("markValues", <<mm, values, i, n>>)
memory_markValues(mm, values, i, n) ==
    IF mm.ub # "" THEN mm ELSE
    IF i > n THEN mm
    ELSE IF i = n THEN markValue(mm, values[i])
    ELSE markValues(markValues(mm, values, i, (i + n) \div 2),
                    values, ((i + n) \div 2) + 1, n)

\* markObject on objects[i..n]
RECURSIVE markObjects(_, _, _, _)
markObjects(mm, objects, i, n) ==
    IF mm.ub # "" THEN mm ELSE
    IF i > n THEN mm
    ELSE IF i = n THEN markObject(mm, objects[i])
    ELSE markObjects(markObjects(mm, objects, i, (i + n) \div 2),
                     objects, ((i + n) \div 2) + 1, n)

\* markTable on entries[i - 1 .. n - 1]
RECURSIVE markTable(_, _, _, _)
markTable(mm, t, i, n) ==
    IF mm.ub # "" THEN mm ELSE
    IF i > n THEN mm
    ELSE IF i = n
    THEN markValue(markObject(mm, t.entries[i].key), t.entries[i].value)
    ELSE markTable(markTable(mm, t, i, (i + n) \div 2),
                   t, ((i + n) \div 2) + 1, n)

\* compiler = current; while (compiler != NULL) { markObject(function); ... }
RECURSIVE markCompilerRoots(_, _)
markCompilerRoots(mm, i) ==
    IF mm.ub # "" THEN mm ELSE
    IF i < 1 THEN mm
    ELSE markCompilerRoots(markObject(mm, mm.compilers[i].function), i - 1)

markRoots(mm) == Invoke("markRoots", <<mm>>)

memory_markRoots(mm) ==
    IF mm.ub # "" THEN mm ELSE
    LET m1 == markValues(mm, mm.vm.stack, 1, mm.vm.stackTop)
        m2 == markObjects(m1, [i \in 1..m1.vm.frameCount |->
                                  m1.vm.frames[i].closure],
                          1, m1.vm.frameCount)
        open == UpvalueList(m2.heap, m2.vm.openUpvalues)
        m3 == markObjects(m2, open, 1, Len(open))
        m4 == markTable(m3, m3.vm.globals, 1, m3.vm.globals.capacity)
    IN  (IF m1.ub # "" THEN m1 ELSE (IF m2.ub # "" THEN m2 ELSE (IF m3.ub # "" THEN m3 ELSE (IF m4.ub # "" THEN m4 ELSE markCompilerRoots(m4, Len(m4.compilers))))))

blackenObject(mm, object) ==
    IF mm.ub # "" THEN mm ELSE
    LET o == mm.heap[object]
    IN  CASE o.type = "OBJ_CLOSURE" ->
                markObjects(markObject(mm, o.function), o.upvalues,
                            1, o.upvalueCount)
          [] o.type = "OBJ_FUNCTION" ->
                markValues(markObject(mm, o.name), o.chunk.constants.values,
                           1, o.chunk.constants.count)
          [] o.type = "OBJ_UPVALUE" -> markValue(mm, o.closed)
          [] OTHER -> mm

\* n rounds of the loop of traceReferences, or fewer if the gray stack
\* empties before
RECURSIVE traceRounds(_, _)
traceRounds(mm, n) ==
    IF mm.ub # "" THEN mm ELSE
    IF mm.vm.grayStack = <<>> \/ n = 0 THEN mm
    ELSE IF n = 1
    THEN LET top == Len(mm.vm.grayStack)
         IN  blackenObject([mm EXCEPT !.vm.grayStack = SubSeq(@, 1, top - 1)],
                           mm.vm.grayStack[top])
    ELSE traceRounds(traceRounds(mm, n \div 2), n - (n \div 2))

\* every object is grayed once at most, so Len(heap) rounds empty the stack
traceReferences(mm) ==
    IF mm.ub # "" THEN mm ELSE
    traceRounds(mm, Len(mm.heap))

\* A Table* is the place of the table: a field of vm (object NULL) or a
\* field of a heap object.
TableRef(object, field) == [object |-> object, field |-> field]

\* *table
TableAt(mm, table) ==
    IF table.object = NULL THEN mm.vm[table.field]
    ELSE mm.heap[table.object][table.field]

\* *table = t
TablePut(mm, table, t) ==
    IF table.object = NULL THEN [mm EXCEPT !.vm[table.field] = t]
    ELSE [mm EXCEPT !.heap[table.object][table.field] = t]

\* tableRemoveWhite on entries[i - 1 .. n - 1]
RECURSIVE tableRemoveWhite(_, _, _, _)
tableRemoveWhite(mm, table, i, n) ==
    IF mm.ub # "" THEN mm ELSE
    IF i > n THEN mm
    ELSE IF i = n
    THEN LET key == TableAt(mm, table).entries[i].key
         IN  IF key # NULL /\ ~IsMarked(mm, key)
             THEN TablePut(mm, table,
                           tableDelete(mm.heap, TableAt(mm, table), key).table)
             ELSE mm
    ELSE tableRemoveWhite(tableRemoveWhite(mm, table, i, (i + n) \div 2),
                          table, ((i + n) \div 2) + 1, n)

reallocate(mm, oldSize, newSize) == Invoke("reallocate", <<mm, oldSize, newSize>>)
collectGarbage(mm) == Invoke("collectGarbage", <<mm>>)

\* freeObject; releasing memory that is already released is undefined.
freeObject(mm, object) ==
    IF mm.ub # "" THEN mm ELSE
    LET o == mm.heap[object]
        m1 == CASE o.type = "OBJ_CLOSURE" ->
                     LET r1 == reallocate(mm, sizeof("ObjUpvalue*")
                                                * o.upvalueCount, 0)
                     IN  IF r1.ub # "" THEN r1
                         ELSE reallocate(r1, sizeof("ObjClosure"), 0)
                [] o.type = "OBJ_FUNCTION" ->
                     LET r1 == reallocate(mm, sizeof("uint8_t")
                                                * o.chunk.capacity, 0)
                         r2 == reallocate(r1, sizeof("int")
                                                * o.chunk.capacity, 0)
                         r3 == reallocate(r2, sizeof("Value")
                                                * o.chunk.constants.capacity, 0)
                     IN  IF r1.ub # "" THEN r1
                         ELSE IF r2.ub # "" THEN r2
                         ELSE IF r3.ub # "" THEN r3
                         ELSE reallocate(r3, sizeof("ObjFunction"), 0)
                [] o.type = "OBJ_NATIVE" -> reallocate(mm, sizeof("ObjNative"), 0)
                [] o.type = "OBJ_STRING" ->
                     LET r1 == reallocate(mm, sizeof("char")
                                                * (Len(o.chars) + 1), 0)
                     IN  IF r1.ub # "" THEN r1
                         ELSE reallocate(r1, sizeof("ObjString"), 0)
                [] o.type = "OBJ_UPVALUE" ->
                     reallocate(mm, sizeof("ObjUpvalue"), 0)
                [] OTHER -> mm
        known == o.type \in {"OBJ_CLOSURE", "OBJ_FUNCTION", "OBJ_NATIVE",
                             "OBJ_STRING", "OBJ_UPVALUE"}
    IN  IF o.freed THEN [mm EXCEPT !.ub = "double free"]
        ELSE (IF m1.ub # "" THEN m1 ELSE [m1 EXCEPT !.heap[object].freed = known])

\* one round of the loop of sweep; s.m is the machine, s.previous and
\* s.object are the locals of sweep.  Reading isMarked of an object that
\* was released is undefined.
sweepRound(s) ==
    IF s.m.heap[s.object].freed
    THEN [s EXCEPT !.m.ub = "use after free"]
    ELSE IF IsMarked(s.m, s.object)
    THEN [m |-> [s.m EXCEPT !.heap[s.object].isMarked = FALSE,
                            !.heap[s.object].indeterminate = FALSE],
          previous |-> s.object,
          object |-> s.m.heap[s.object].next]
    ELSE LET next == s.m.heap[s.object].next
             m1 == IF s.previous # NULL
                   THEN [s.m EXCEPT !.heap[s.previous].next = next]
                   ELSE [s.m EXCEPT !.vm.objects = next]
         IN  [m |-> freeObject(m1, s.object),
              previous |-> s.previous,
              object |-> next]

\* n rounds of the loop of sweep, or fewer if the list ends before
RECURSIVE sweepRounds(_, _)
sweepRounds(s, n) ==
    IF s.m.ub # "" \/ s.object = NULL \/ n = 0 THEN s
    ELSE sweepRounds(sweepRound(s), n - 1)

\* every round leaves an object of the heap behind
sweep(mm) ==
    IF mm.ub # "" THEN mm ELSE
    sweepRounds([m |-> mm, previous |-> NULL, object |-> mm.vm.objects],
                Len(mm.heap)).m

\* collectGarbage.  m.gc is bookkeeping about collections, not C state:
\* depth is the number of collections in progress, nested says that one
\* began inside another, lost are the objects that were reachable from the
\* roots when a collection began and were released when it ended, kept the
\* objects that were unreachable then and are still allocated after it,
\* held the objects that the routines in progress have in C locals and use
\* after their next allocation, unrooted those of them that were not
\* reachable from the roots when a collection began.
\* the end of collectGarbage, after sweep; before and listed are the objects
\* that were reachable and the objects that were in vm.objects at its start
swept(mm, before, listed) ==
    IF mm.ub # "" THEN mm ELSE
    [mm EXCEPT
       !.vm.nextGC = mm.vm.bytesAllocated * 2,
       !.gc.depth = @ - 1,
       !.gc.runs = IF @ < 2 THEN @ + 1 ELSE @,
       !.gc.last = [bytesAllocated |-> mm.vm.bytesAllocated,
                    nextGC |-> mm.vm.bytesAllocated * 2],
       !.gc.lost = @ \cup {o \in before : mm.heap[o].freed},
       !.gc.kept = {o \in listed \ before : ~mm.heap[o].freed}]

memory_collectGarbage(mm) ==
    IF mm.ub # "" THEN mm ELSE
    LET before == Reachable(mm)
        listed == ObjectList(mm.heap, mm.vm.objects)
        m0 == [mm EXCEPT !.gc.depth = @ + 1,
                         !.gc.nested = @ \/ (mm.gc.depth > 0),
                         !.gc.unwritten =
                             @ \/ \E o \in listed : mm.heap[o].indeterminate,
                         !.gc.marked =
                             @ \/ \E o \in listed :
                                     /\ ~mm.heap[o].indeterminate
                                     /\ mm.heap[o].isMarked,
                         !.gc.unrooted = @ \cup (mm.gc.held \ before)]
        m1 == markRoots(m0)
        m2 == traceReferences(m1)
        m3 == tableRemoveWhite(m2, TableRef(NULL, "strings"), 1,
                               m2.vm.strings.capacity)
    IN  (IF m1.ub # "" THEN m1 ELSE (IF m2.ub # "" THEN m2 ELSE (IF m3.ub # "" THEN m3 ELSE swept(sweep(m3), before, listed))))

\* reallocate, up to the call of free/realloc, which is the caller's part.
memory_reallocate(mm, oldSize, newSize) ==
    IF mm.ub # "" THEN mm ELSE
    LET m1 == [mm EXCEPT
                 !.vm.bytesAllocated = @ + newSize - oldSize,
                 !.gc.released =
                     @ \/ (/\ newSize <= oldSize
                           /\ mm.vm.bytesAllocated + newSize - oldSize
                                 > mm.vm.nextGC)]
        m2 == IF newSize > oldSize /\ m1.DEBUG_STRESS_GC
              THEN collectGarbage(m1) ELSE m1
    IN  (IF m2.ub # "" THEN m2 ELSE IF m2.vm.bytesAllocated > m2.vm.nextGC
                 THEN collectGarbage(m2) ELSE m2)

(***************************************************************************)
(* Tables inside the machine: adjustCapacity and tableSet allocate.        *)
(***************************************************************************)
adjustCapacity(mm, table, capacity) ==
    IF mm.ub # "" THEN mm ELSE
    LET m1 == reallocate(mm, 0, sizeof("Entry") * capacity)
        old == TableAt(m1, table)
        copied == adjustCopy(m1.heap, old.entries, 1,
                             [i \in 1..capacity |-> Entry(NULL, NIL_VAL)],
                             capacity, 0)
        m2 == reallocate(TablePut(m1, table, [old EXCEPT !.count = copied.count]),
                         sizeof("Entry") * old.capacity, 0)
    IN  TablePut(m2, table, [TableAt(m2, table) EXCEPT
                                !.entries = copied.entries,
                                !.capacity = capacity])

tableSet(mm, table, key, value) == Invoke("tableSet", <<mm, table, key, value>>)

\* tableSet that counts every new key, a reused tombstone included
tableSetCountsTombstone(mm, table, key, value) ==
    IF mm.ub # "" THEN mm ELSE
    LET m1 == IF tableMustGrow(TableAt(mm, table))
              THEN adjustCapacity(mm, table,
                                  GROW_CAPACITY(TableAt(mm, table).capacity))
              ELSE mm
        t == TableAt(m1, table)
        e == findEntry(m1.heap, t.entries, t.capacity, key)
        entry == t.entries[e + 1]
        isNewKey == entry.key = NULL
    IN  [TablePut(m1, table,
                  [t EXCEPT !.count = IF isNewKey THEN @ + 1 ELSE @,
                            !.entries[e + 1] = Entry(key, value)])
            EXCEPT !.ret = isNewKey]

\* tableSet; m.ret is isNewKey
table_tableSet(mm, table, key, value) ==
    IF mm.ub # "" THEN mm ELSE
    LET m1 == IF tableMustGrow(TableAt(mm, table))
              THEN adjustCapacity(mm, table,
                                  GROW_CAPACITY(TableAt(mm, table).capacity))
              ELSE mm
        t == TableAt(m1, table)
        e == findEntry(m1.heap, t.entries, t.capacity, key)
        entry == t.entries[e + 1]
        isNewKey == entry.key = NULL
    IN  [TablePut(m1, table,
                  [t EXCEPT !.count = IF isNewKey /\ IS_NIL(entry.value)
                                      THEN @ + 1 ELSE @,
                            !.entries[e + 1] = Entry(key, value)])
            EXCEPT !.ret = isNewKey]

\* The loop of tableAddAll from entry i on; *from is read anew each round.
RECURSIVE tableAddAllFrom(_, _, _, _)
tableAddAllFrom(mm, from, to, i) ==
    IF mm.ub # "" \/ i >= TableAt(mm, from).capacity THEN mm
    ELSE LET entry == TableAt(mm, from).entries[i + 1]
         IN  IF entry.key # NULL
             THEN tableAddAllFrom(tableSet(mm, to, entry.key, entry.value),
                                  from, to, i + 1)
             ELSE tableAddAllFrom(mm, from, to, i + 1)

\* tableAddAll that copies the other way round
tableAddAllBack(mm, from, to) == tableAddAllFrom(mm, to, from, 0)

tableAddAll(mm, from, to) == tableAddAllFrom(mm, from, to, 0)

(***************************************************************************)
(* Objects (object.c).  m.ret is the new object.                           *)
(***************************************************************************)
\* the routine in progress has these objects in locals from here on
Holding(mm, objects) ==
    [mm EXCEPT !.gc.held = @ \cup objects]

allocateObject(mm, size, object) ==
    IF mm.ub # "" THEN mm ELSE
    LET m1 == reallocate(mm, 0, size)
        id == Len(m1.heap) + 1
    IN  [m1 EXCEPT !.heap = Append(@, [object EXCEPT !.next = m1.vm.objects]),
                   !.vm.objects = id,
                   !.ret = id]

allocateString(mm, chars, hash) ==
    IF mm.ub # "" THEN mm ELSE
    LET m1 == allocateObject(mm, sizeof("ObjString"),
                             Obj("OBJ_STRING", NULL)
                                 @@ [chars |-> chars, hash |-> hash])
        string == m1.ret
    IN  [tableSet(Holding(m1, {string}), TableRef(NULL, "strings"), string,
                 NIL_VAL)
            EXCEPT !.ret = string, !.gc.held = mm.gc.held]

takeString(mm, chars) ==
    IF mm.ub # "" THEN mm ELSE
    LET hash == hashString(chars)
        interned == tableFindString(mm.heap, mm.vm.strings, chars, hash)
    IN  IF interned # NULL
        THEN [reallocate(mm, sizeof("char") * (Len(chars) + 1), 0)
                  EXCEPT !.ret = interned]
        ELSE allocateString(mm, chars, hash)

copyString(mm, chars) == Invoke("copyString", <<mm, chars>>)

object_copyString(mm, chars) ==
    IF mm.ub # "" THEN mm ELSE
    LET hash == hashString(chars)
        interned == tableFindString(mm.heap, mm.vm.strings, chars, hash)
    IN  IF interned # NULL
        THEN [mm EXCEPT !.ret = interned]
        ELSE allocateString(reallocate(mm, 0, sizeof("char") * (Len(chars) + 1)),
                            chars, hash)

newFunction(mm) ==
    IF mm.ub # "" THEN mm ELSE
    allocateObject(mm, sizeof("ObjFunction"),
                   Obj("OBJ_FUNCTION", NULL)
                       @@ [arity |-> 0, upvalueCount |-> 0, name |-> NULL,
                           chunk |-> EmptyChunk])

newNative(mm, function) ==
    IF mm.ub # "" THEN mm ELSE
    allocateObject(mm, sizeof("ObjNative"),
                   Obj("OBJ_NATIVE", NULL) @@ [function |-> function])

newClosure(mm, function) ==
    IF mm.ub # "" THEN mm ELSE
    LET n == mm.heap[function].upvalueCount
        m1 == reallocate(mm, 0, sizeof("ObjUpvalue*") * n)
    IN  allocateObject(m1, sizeof("ObjClosure"),
                       Obj("OBJ_CLOSURE", NULL)
                           @@ [function |-> function,
                               upvalues |-> [i \in 1..n |-> NULL],
                               upvalueCount |-> n])

newUpvalue(mm, slot) ==
    IF mm.ub # "" THEN mm ELSE
    allocateObject(mm, sizeof("ObjUpvalue"),
                   Obj("OBJ_UPVALUE", NULL)
                       @@ [location |-> slot, closed |-> NIL_VAL,
                           nextUpvalue |-> NULL])

\* The constructors of the class objects are not in object.c; these follow
\* the object layouts: a class has a name and a method table, an instance a
\* class and a field table, a bound method a receiver and a closure.
newClass(mm, name) ==
    IF mm.ub # "" THEN mm ELSE
    allocateObject(mm, sizeof("ObjClass"),
                   Obj("OBJ_CLASS", NULL)
                       @@ [name |-> name, methods |-> EmptyTable])

newInstance(mm, klass) ==
    IF mm.ub # "" THEN mm ELSE
    allocateObject(mm, sizeof("ObjInstance"),
                   Obj("OBJ_INSTANCE", NULL)
                       @@ [klass |-> klass, fields |-> EmptyTable])

newBoundMethod(mm, receiver, method) ==
    IF mm.ub # "" THEN mm ELSE
    allocateObject(mm, sizeof("ObjBoundMethod"),
                   Obj("OBJ_BOUND_METHOD", NULL)
                       @@ [receiver |-> receiver, method |-> method])

IS_INSTANCE(mm, value) ==
    IS_OBJ(value) /\ mm.heap[value.obj].type = "OBJ_INSTANCE"

(***************************************************************************)
(* The virtual machine (vm.h, vm.c).                                       *)
(***************************************************************************)
FRAMES_MAX == 64

\* UINT8_COUNT is 256 in the program; the model scales it down so that the
\* operand stack (FRAMES_MAX * UINT8_COUNT slots) can be filled.
UINT8_COUNT == 4

STACK_MAX == FRAMES_MAX * UINT8_COUNT

\* UINT16_MAX of <stdint.h>
UINT16_MAX == 65535

\* isFalsey that takes the number 0 for false as well
isFalseyOrZero(value) ==
    \/ value.type = "VAL_NIL"
    \/ (value.type = "VAL_BOOL" /\ ~value.boolean)
    \/ (value.type = "VAL_NUMBER" /\ value.number = 0)

\* vm.stack[i]; m.vm.stack holds the slots written so far, the rest of the
\* static array is zero, which reads as the bool false.
StackAt(mm, i) ==
    IF i + 1 \in 1..Len(mm.vm.stack) THEN mm.vm.stack[i + 1]
    ELSE BOOL_VAL(FALSE)

\* push has no bounds check: a push with stackTop == stack + STACK_MAX
\* writes past the array.
push(mm, value) ==
    IF mm.ub # "" THEN mm ELSE
    LET top == mm.vm.stackTop
    IN  IF top >= STACK_MAX \/ top < 0
        THEN [mm EXCEPT !.vm.stackTop = @ + 1,
                        !.ub = IF @ = "" THEN "write outside vm.stack" ELSE @]
        ELSE [mm EXCEPT !.vm.stack = IF top + 1 > Len(@) THEN Append(@, value)
                                     ELSE [@ EXCEPT ![top + 1] = value],
                        !.vm.stackTop = @ + 1]

\* pop has no bounds check either.
pop(mm) ==
    IF mm.ub # "" THEN mm ELSE
    [mm EXCEPT !.vm.stackTop = @ - 1,
               !.ub = IF mm.vm.stackTop <= 0 /\ @ = ""
                      THEN "read outside vm.stack" ELSE @]

peek(mm, distance) == StackAt(mm, mm.vm.stackTop - 1 - distance)

resetStack(mm) ==
    IF mm.ub # "" THEN mm ELSE
    [mm EXCEPT !.vm.stackTop = 0,
               !.vm.frameCount = 0,
               !.vm.frames = <<>>,
               !.vm.openUpvalues = NULL]

\* runtimeError that reports and does not reset the stack
runtimeErrorKeepingStack(mm, message) ==
    IF mm.ub # "" THEN mm ELSE
    [mm EXCEPT !.stderr = Append(@, message)]

\* runtimeError: the message goes to stderr (the stack trace that follows
\* it is not kept), then the stack is reset.
runtimeError(mm, message) ==
    IF mm.ub # "" THEN mm ELSE
    resetStack([mm EXCEPT !.stderr = Append(@, message)])

\* run() returning INTERPRET_RUNTIME_ERROR after runtimeError
RuntimeErrorReturn(mm, message) ==
    IF mm.ub # "" THEN mm ELSE
    [runtimeError(mm, message) EXCEPT !.running = FALSE,
                                      !.result = "INTERPRET_RUNTIME_ERROR"]

defineNative(mm, name, function) ==
    IF mm.ub # "" THEN mm ELSE
    LET m1 == copyString(mm, name)
        m2 == push(m1, OBJ_VAL(m1.ret))
        m3 == newNative(Holding(m2, {m1.ret}), function)
        m4 == push(m3, OBJ_VAL(m3.ret))
        m5 == tableSet(Holding(m4, {m3.ret}), TableRef(NULL, "globals"),
                       StackAt(m4, 0).obj, StackAt(m4, 1))
    IN  pop(pop([m5 EXCEPT !.gc.held = mm.gc.held]))

\* The machine before initVM: `vm` is zero-initialised static storage.
ZeroMachine(stress) ==
    [heap |-> <<>>,
     vm |-> [stack |-> <<>>, stackTop |-> 0, frames |-> <<>>, frameCount |-> 0,
             openUpvalues |-> NULL, objects |-> NULL,
             globals |-> EmptyTable, strings |-> EmptyTable,
             initString |-> NULL, bytesAllocated |-> 0, nextGC |-> 0,
             grayStack |-> <<>>, grayCapacity |-> 0],
     parser |-> [current |-> NULL, previous |-> NULL,
                 hadError |-> FALSE, panicMode |-> FALSE],
     scanner |-> [source |-> <<>>, current |-> 1],
     compilers |-> <<>>,
     DEBUG_STRESS_GC |-> stress,
     junk |-> FALSE,
     ret |-> NULL,
     ub |-> "",
     running |-> FALSE,
     result |-> "",
     stdout |-> <<>>,
     stderr |-> <<>>,
     diag |-> <<>>,
     jumps |-> <<>>,
     spans |-> <<>>,
     names |-> <<>>,
     initializing |-> <<>>,
     depths |-> {},
     ellipsis |-> 0,
     gc |-> [depth |-> 0, runs |-> 0, nested |-> FALSE, lost |-> {}, kept |-> {},
             held |-> {}, unrooted |-> {}, released |-> FALSE,
             unwritten |-> FALSE, marked |-> FALSE,
             last |-> [bytesAllocated |-> 0, nextGC |-> 0]]]

initVM(mm, nextGC) == Invoke("initVM", <<mm, nextGC>>)

\* initVM; nextGC is 1024 * 1024 in the program.
vm_initVM(mm, nextGC) ==
    IF mm.ub # "" THEN mm ELSE
    LET m1 == [resetStack(mm) EXCEPT !.vm.objects = NULL,
                                     !.vm.bytesAllocated = 0,
                                     !.vm.nextGC = nextGC,
                                     !.vm.grayStack = <<>>,
                                     !.vm.grayCapacity = 0,
                                     !.vm.globals = EmptyTable,
                                     !.vm.strings = EmptyTable,
                                     !.vm.initString = NULL]
        m2 == copyString(m1, <<105, 110, 105, 116>>)
        m3 == [m2 EXCEPT !.vm.initString = m2.ret]
    IN  defineNative(m3, <<99, 108, 111, 99, 107>>, "clockNative")

\* call without the check of the argument count
callAnyArity(mm, closure, argCount) ==
    IF mm.ub # "" THEN mm ELSE
    IF mm.vm.frameCount = FRAMES_MAX
    THEN [runtimeError(mm, "Stack overflow.") EXCEPT !.ret = FALSE]
    ELSE [mm EXCEPT
            !.vm.frames = Append(@, [closure |-> closure, ip |-> 0,
                                     slots |-> mm.vm.stackTop - argCount - 1]),
            !.vm.frameCount = @ + 1,
            !.ret = TRUE]

call(mm, closure, argCount) ==
    IF mm.ub # "" THEN mm ELSE
    IF argCount # mm.heap[mm.heap[closure].function].arity
    THEN [runtimeError(mm, "Expected %d arguments but got %d.")
             EXCEPT !.ret = FALSE]
    ELSE IF mm.vm.frameCount = FRAMES_MAX
    THEN [runtimeError(mm, "Stack overflow.") EXCEPT !.ret = FALSE]
    ELSE [mm EXCEPT
            !.vm.frames = Append(@, [closure |-> closure, ip |-> 0,
                                     slots |-> mm.vm.stackTop - argCount - 1]),
            !.vm.frameCount = @ + 1,
            !.ret = TRUE]

\* vm.stackTop[-distance - 1] = value
Poke(mm, distance, value) ==
    [mm EXCEPT !.vm.stack[mm.vm.stackTop - distance] = value]

\* callValue that reports nothing for a value that cannot be called
callValueUnreported(mm, callee, argCount, clock) ==
    IF mm.ub # "" THEN mm ELSE
    IF IS_OBJ(callee) /\ mm.heap[callee.obj].type = "OBJ_CLOSURE"
    THEN call(mm, callee.obj, argCount)
    ELSE IF IS_OBJ(callee) /\ mm.heap[callee.obj].type = "OBJ_NATIVE"
    THEN [push([mm EXCEPT !.vm.stackTop = @ - (argCount + 1)],
               NUMBER_VAL(clock))
             EXCEPT !.ret = TRUE]
    ELSE [mm EXCEPT !.ret = FALSE]

\* callValue that accepts arguments for a class without initializer
callValueAnyArguments(mm, callee, argCount, clock) ==
    IF mm.ub # "" THEN mm ELSE
    IF IS_OBJ(callee) /\ mm.heap[callee.obj].type = "OBJ_CLASS"
    THEN LET klass == callee.obj
             m1 == newInstance(mm, klass)
             m2 == Poke(m1, argCount, OBJ_VAL(m1.ret))
             initializer == tableGet(m2.heap, m2.heap[klass].methods,
                                     m2.vm.initString)
         IN  IF m1.ub # "" THEN m1
             ELSE IF initializer.found
             THEN call(m2, initializer.value.obj, argCount)
             ELSE [m2 EXCEPT !.ret = TRUE]
    ELSE callValueUnreported(mm, callee, argCount, clock)

\* callValue; clock is what clock() / CLOCKS_PER_SEC yields.
callValue(mm, callee, argCount, clock) ==
    IF mm.ub # "" THEN mm ELSE
    IF IS_OBJ(callee) /\ mm.heap[callee.obj].type = "OBJ_BOUND_METHOD"
    THEN LET bound == mm.heap[callee.obj]
         IN  call(Poke(mm, argCount, bound.receiver), bound.method, argCount)
    ELSE IF IS_OBJ(callee) /\ mm.heap[callee.obj].type = "OBJ_CLASS"
    THEN LET klass == callee.obj
             m1 == newInstance(mm, klass)
             m2 == Poke(m1, argCount, OBJ_VAL(m1.ret))
             initializer == tableGet(m2.heap, m2.heap[klass].methods,
                                     m2.vm.initString)
         IN  IF m1.ub # "" THEN m1
             ELSE IF initializer.found
             THEN call(m2, initializer.value.obj, argCount)
             ELSE IF argCount # 0
             THEN [runtimeError(m2, "Expected 0 arguments but got %d.")
                      EXCEPT !.ret = FALSE]
             ELSE [m2 EXCEPT !.ret = TRUE]
    ELSE IF IS_OBJ(callee) /\ mm.heap[callee.obj].type = "OBJ_CLOSURE"
    THEN call(mm, callee.obj, argCount)
    ELSE IF IS_OBJ(callee) /\ mm.heap[callee.obj].type = "OBJ_NATIVE"
    THEN [push([mm EXCEPT !.vm.stackTop = @ - (argCount + 1)],
               NUMBER_VAL(clock))
             EXCEPT !.ret = TRUE]
    ELSE [runtimeError(mm, "Can only call functions and classes.")
             EXCEPT !.ret = FALSE]

invokeFromClass(mm, klass, name, argCount) ==
    IF mm.ub # "" THEN mm ELSE
    LET method == tableGet(mm.heap, mm.heap[klass].methods, name)
    IN  IF ~method.found
        THEN [runtimeError(mm, "Undefined property '%s'.") EXCEPT !.ret = FALSE]
        ELSE call(mm, method.value.obj, argCount)

\* invoke that never looks at the fields of the receiver
invokeMethodOnly(mm, name, argCount, clock) ==
    IF mm.ub # "" THEN mm ELSE
    LET receiver == peek(mm, argCount)
    IN  IF ~IS_INSTANCE(mm, receiver)
        THEN [runtimeError(mm, "Only instances have methods.")
                 EXCEPT !.ret = FALSE]
        ELSE invokeFromClass(mm, mm.heap[receiver.obj].klass, name, argCount)

invoke(mm, name, argCount, clock) ==
    IF mm.ub # "" THEN mm ELSE
    LET receiver == peek(mm, argCount)
        instance == mm.heap[receiver.obj]
        field == tableGet(mm.heap, instance.fields, name)
    IN  IF ~IS_INSTANCE(mm, receiver)
        THEN [runtimeError(mm, "Only instances have methods.")
                 EXCEPT !.ret = FALSE]
        ELSE IF field.found
        THEN callValue(Poke(mm, argCount, field.value), field.value, argCount,
                       clock)
        ELSE invokeFromClass(mm, instance.klass, name, argCount)

bindMethod(mm, klass, name) ==
    IF mm.ub # "" THEN mm ELSE
    LET method == tableGet(mm.heap, mm.heap[klass].methods, name)
        m1 == newBoundMethod(mm, peek(mm, 0), method.value.obj)
    IN  IF ~method.found
        THEN [runtimeError(mm, "Undefined property '%s'.") EXCEPT !.ret = FALSE]
        ELSE [push(pop(m1), OBJ_VAL(m1.ret)) EXCEPT !.ret = TRUE]

defineMethod(mm, name) ==
    IF mm.ub # "" THEN mm ELSE
    pop(tableSet(mm, TableRef(peek(mm, 1).obj, "methods"), name, peek(mm, 0)))

\* run() returning INTERPRET_RUNTIME_ERROR after a call that reported
ErrorReturn(mm) ==
    IF mm.ub # "" \/ mm.ret THEN mm
    ELSE [mm EXCEPT !.running = FALSE, !.result = "INTERPRET_RUNTIME_ERROR"]

\* The cases of run() for calls, properties and classes, after their
\* operands have been read.
OP_CALL(mm, argCount, clock) ==
    ErrorReturn(callValue(mm, peek(mm, argCount), argCount, clock))

OP_INVOKE(mm, method, argCount, clock) ==
    ErrorReturn(invoke(mm, method, argCount, clock))

OP_GET_PROPERTY(mm, name) ==
    IF mm.ub # "" THEN mm ELSE
    LET instance == mm.heap[peek(mm, 0).obj]
        field == tableGet(mm.heap, instance.fields, name)
    IN  IF ~IS_INSTANCE(mm, peek(mm, 0))
        THEN RuntimeErrorReturn(mm, "Only instances have properties.")
        ELSE IF field.found
        THEN push(pop(mm), field.value)
        ELSE ErrorReturn(bindMethod(mm, instance.klass, name))

OP_SET_PROPERTY(mm, name) ==
    IF mm.ub # "" THEN mm ELSE
    IF ~IS_INSTANCE(mm, peek(mm, 1))
    THEN RuntimeErrorReturn(mm, "Only instances have fields.")
    ELSE LET m1 == tableSet(mm, TableRef(peek(mm, 1).obj, "fields"), name,
                            peek(mm, 0))
         IN  push(pop(pop(m1)), peek(m1, 0))

OP_CLASS(mm, name) ==
    IF mm.ub # "" THEN mm ELSE
    LET m1 == newClass(mm, name)
    IN  push(m1, OBJ_VAL(m1.ret))

\* AS_CLASS of a value that is no class reads another object as an ObjClass
OP_INHERIT(mm) ==
    IF mm.ub # "" THEN mm ELSE
    LET superclass == peek(mm, 1)
        subclass == peek(mm, 0)
    IN  IF ~(IS_OBJ(superclass) /\ mm.heap[superclass.obj].type = "OBJ_CLASS")
        THEN RuntimeErrorReturn(mm, "Superclass must be a class.")
        ELSE IF ~(IS_OBJ(subclass) /\ mm.heap[subclass.obj].type = "OBJ_CLASS")
        THEN [mm EXCEPT !.ub = "OP_INHERIT: subclass is not a class"]
        ELSE pop(tableAddAll(mm, TableRef(superclass.obj, "methods"),
                             TableRef(subclass.obj, "methods")))

\* The loop of captureUpvalue: the first upvalue whose location is not
\* above local, and the one before it.
RECURSIVE captureScan(_, _, _, _)
captureScan(h, prevUpvalue, upvalue, local) ==
    IF upvalue # NULL /\ h[upvalue].location > local
    THEN captureScan(h, upvalue, h[upvalue].nextUpvalue, local)
    ELSE [prevUpvalue |-> prevUpvalue, upvalue |-> upvalue]

\* captureUpvalue that links every new upvalue at the head of the list
captureUpvalueAtHead(mm, local) ==
    IF mm.ub # "" THEN mm ELSE
    LET at == captureScan(mm.heap, NULL, mm.vm.openUpvalues, local)
        m1 == newUpvalue(mm, local)
        createdUpvalue == m1.ret
    IN  IF at.upvalue # NULL /\ mm.heap[at.upvalue].location = local
        THEN [mm EXCEPT !.ret = at.upvalue]
        ELSE [m1 EXCEPT !.heap[createdUpvalue].nextUpvalue = mm.vm.openUpvalues,
                        !.vm.openUpvalues = createdUpvalue]

\* captureUpvalue that makes a new upvalue for a slot that has one
captureUpvalueFresh(mm, local) ==
    IF mm.ub # "" THEN mm ELSE
    LET at == captureScan(mm.heap, NULL, mm.vm.openUpvalues, local)
        m1 == newUpvalue(mm, local)
        createdUpvalue == m1.ret
    IN  IF at.prevUpvalue = NULL
        THEN [m1 EXCEPT !.heap[createdUpvalue].nextUpvalue = at.upvalue,
                        !.vm.openUpvalues = createdUpvalue]
        ELSE [m1 EXCEPT !.heap[createdUpvalue].nextUpvalue = at.upvalue,
                        !.heap[at.prevUpvalue].nextUpvalue = createdUpvalue]

captureUpvalue(mm, local) ==
    IF mm.ub # "" THEN mm ELSE
    LET at == captureScan(mm.heap, NULL, mm.vm.openUpvalues, local)
        m1 == newUpvalue(mm, local)
        createdUpvalue == m1.ret
    IN  IF at.upvalue # NULL /\ mm.heap[at.upvalue].location = local
        THEN [mm EXCEPT !.ret = at.upvalue]
        ELSE IF at.prevUpvalue = NULL
        THEN [m1 EXCEPT !.heap[createdUpvalue].nextUpvalue = at.upvalue,
                        !.vm.openUpvalues = createdUpvalue]
        ELSE [m1 EXCEPT !.heap[createdUpvalue].nextUpvalue = at.upvalue,
                        !.heap[at.prevUpvalue].nextUpvalue = createdUpvalue]

\* closeUpvalues that leaves the upvalues open
closeUpvaluesNone(mm, last) == mm

\* closeUpvalues that leaves the upvalue of the slot `last` open
RECURSIVE closeUpvaluesAbove(_, _)
closeUpvaluesAbove(mm, last) ==
    IF mm.ub # "" THEN mm ELSE
    LET upvalue == mm.vm.openUpvalues
    IN  IF upvalue # NULL /\ mm.heap[upvalue].location > last
        THEN closeUpvaluesAbove(
                 [mm EXCEPT
                    !.heap[upvalue].closed =
                        StackAt(mm, mm.heap[upvalue].location),
                    !.heap[upvalue].location = ClosedCell,
                    !.vm.openUpvalues = mm.heap[upvalue].nextUpvalue],
                 last)
        ELSE mm

RECURSIVE closeUpvalues(_, _)
closeUpvalues(mm, last) ==
    IF mm.ub # "" THEN mm ELSE
    LET upvalue == mm.vm.openUpvalues
    IN  IF upvalue # NULL /\ mm.heap[upvalue].location >= last
        THEN closeUpvalues(
                 [mm EXCEPT
                    !.heap[upvalue].closed =
                        StackAt(mm, mm.heap[upvalue].location),
                    !.heap[upvalue].location = ClosedCell,
                    !.vm.openUpvalues = mm.heap[upvalue].nextUpvalue],
                 last)
        ELSE mm

isFalsey(value) == IS_NIL(value) \/ (IS_BOOL(value) /\ ~value.boolean)

IS_STRING(mm, value) ==
    IS_OBJ(value) /\ mm.heap[value.obj].type = "OBJ_STRING"

concatenate(mm) == Invoke("concatenate", <<mm>>)

vm_concatenate(mm) ==
    IF mm.ub # "" THEN mm ELSE
    LET b == mm.heap[peek(mm, 0).obj]
        a == mm.heap[peek(mm, 1).obj]
        chars == a.chars \o b.chars
        m1 == reallocate(Holding(mm, {peek(mm, 0).obj, peek(mm, 1).obj}),
                         0, sizeof("char") * (Len(chars) + 1))
        m2 == takeString(m1, chars)
    IN  push(pop(pop([m2 EXCEPT !.gc.held = mm.gc.held])), OBJ_VAL(m2.ret))

\* *upvalue->location
UpvalueGet(mm, upvalue) ==
    IF mm.heap[upvalue].location = ClosedCell THEN mm.heap[upvalue].closed
    ELSE StackAt(mm, mm.heap[upvalue].location)

\* *upvalue->location = value
UpvalueSet(mm, upvalue, value) ==
    IF mm.ub # "" THEN mm ELSE
    IF mm.heap[upvalue].location = ClosedCell
    THEN [mm EXCEPT !.heap[upvalue].closed = value]
    ELSE [mm EXCEPT !.vm.stack[mm.heap[upvalue].location + 1] = value]

\* what printValue writes for a value (printObject knows strings only)
printValue(mm, value) ==
    CASE IS_BOOL(value) -> IF value.boolean THEN "true" ELSE "false"
      [] IS_NIL(value) -> "nil"
      [] IS_NUMBER(value) -> value.number
      [] IS_OBJ(value) -> IF mm.heap[value.obj].type = "OBJ_STRING"
                          THEN mm.heap[value.obj].chars ELSE ""

\* a op b on doubles, for the integers the model computes with; a quotient
\* that is not an integer is kept as the pair <<a, b>>
BinaryOp(op, a, b) ==
    CASE op = "OP_GREATER" -> BOOL_VAL(a > b)
      [] op = "OP_LESS" -> BOOL_VAL(a < b)
      [] op = "OP_ADD" -> NUMBER_VAL(a + b)
      [] op = "OP_SUBTRACT" -> NUMBER_VAL(a - b)
      [] op = "OP_MULTIPLY" -> NUMBER_VAL(a * b)
      [] op = "OP_DIVIDE" -> IF b > 0 /\ a >= 0 /\ a % b = 0
                             THEN NUMBER_VAL(a \div b)
                             ELSE NUMBER_VAL(<<a, b>>)

\* The upvalue loop of OP_CLOSURE: operand pairs i..n, read at ip.
RECURSIVE closureUpvalues(_, _, _, _, _, _)
closureUpvalues(mm, closure, code, ip, i, n) ==
    IF mm.ub # "" THEN mm ELSE
    IF i > n THEN mm
    ELSE LET frame == mm.vm.frames[mm.vm.frameCount]
             isLocal == code[ip + 1]
             index == code[ip + 2]
             m1 == IF isLocal # 0
                   THEN captureUpvalue(mm, frame.slots + index)
                   ELSE [mm EXCEPT !.ret =
                            mm.heap[frame.closure].upvalues[index + 1]]
         IN  closureUpvalues(
                 [m1 EXCEPT !.heap[closure].upvalues[i] = m1.ret],
                 closure, code, ip + 2, i + 1, n)

run(mm, clock) == Invoke("run", <<mm, clock>>)

\* frame->slots[slot] written with the index of vm.stack instead
StackSlot(frame, slot) == slot

\* frame->slots[slot]: the index in vm.stack of local slot of a frame
LocalSlot(frame, slot) == frame.slots + slot

\* One iteration of the for (;;) loop of run(): the instruction at the
\* top frame's ip.
vm_run(mm, clock) ==
    IF mm.ub # "" THEN mm ELSE
    LET fc == mm.vm.frameCount
        frame == mm.vm.frames[fc]
        closure == mm.heap[frame.closure]
        chunk == mm.heap[closure.function].chunk
        instruction == chunk.code[frame.ip + 1]
        byte == chunk.code[frame.ip + 2]
        short == (chunk.code[frame.ip + 2] * 256) + chunk.code[frame.ip + 3]
        constant == chunk.constants.values[byte + 1]
        \* the machine after READ_BYTE of the opcode and n operand bytes
        Read(n) == [mm EXCEPT !.vm.frames[fc].ip = @ + 1 + n]
        Jump(to) == [mm EXCEPT !.vm.frames[fc].ip = to]
    IN  CASE instruction = "OP_CONSTANT" -> push(Read(1), constant)
          [] instruction = "OP_NIL" -> push(Read(0), NIL_VAL)
          [] instruction = "OP_TRUE" -> push(Read(0), BOOL_VAL(TRUE))
          [] instruction = "OP_FALSE" -> push(Read(0), BOOL_VAL(FALSE))
          [] instruction = "OP_POP" -> pop(Read(0))
          [] instruction = "OP_GET_LOCAL" ->
                push(Read(1), StackAt(mm, LocalSlot(frame, byte)))
          [] instruction = "OP_SET_LOCAL" ->
                [Read(1) EXCEPT !.vm.stack[LocalSlot(frame, byte) + 1] = peek(mm, 0)]
          [] instruction = "OP_GET_GLOBAL" ->
                LET got == tableGet(mm.heap, mm.vm.globals, constant.obj)
                IN  IF ~got.found
                    THEN RuntimeErrorReturn(Read(1), "Undefined variable '%s'.")
                    ELSE push(Read(1), got.value)
          [] instruction = "OP_DEFINE_GLOBAL" ->
                pop(tableSet(Read(1), TableRef(NULL, "globals"), constant.obj,
                             peek(mm, 0)))
          [] instruction = "OP_SET_GLOBAL" ->
                LET m1 == tableSet(Read(1), TableRef(NULL, "globals"), constant.obj,
                             peek(mm, 0))
                IN  IF m1.ret
                    THEN RuntimeErrorReturn(
                             [m1 EXCEPT !.vm.globals =
                                 tableDelete(m1.heap, @, constant.obj).table],
                             "Undefined variable '%s'.")
                    ELSE m1
          [] instruction = "OP_SET_UPVALUE" ->
                UpvalueSet(Read(1), closure.upvalues[byte + 1], peek(mm, 0))
          [] instruction = "OP_GET_UPVALUE" ->
                push(Read(1), UpvalueGet(mm, closure.upvalues[byte + 1]))
          [] instruction = "OP_EQUAL" ->
                push(pop(pop(Read(0))),
                     BOOL_VAL(valuesEqual(peek(mm, 1), peek(mm, 0))))
          [] instruction \in {"OP_GREATER", "OP_LESS", "OP_SUBTRACT",
                              "OP_MULTIPLY", "OP_DIVIDE"} ->
                IF ~IS_NUMBER(peek(mm, 0)) \/ ~IS_NUMBER(peek(mm, 1))
                THEN RuntimeErrorReturn(Read(0), "Operands must be numbers.")
                ELSE push(pop(pop(Read(0))),
                          BinaryOp(instruction, peek(mm, 1).number,
                                   peek(mm, 0).number))
          [] instruction = "OP_ADD" ->
                IF IS_STRING(mm, peek(mm, 0)) /\ IS_STRING(mm, peek(mm, 1))
                THEN concatenate(Read(0))
                ELSE IF IS_NUMBER(peek(mm, 0)) /\ IS_NUMBER(peek(mm, 1))
                THEN push(pop(pop(Read(0))),
                          BinaryOp("OP_ADD", peek(mm, 1).number,
                                   peek(mm, 0).number))
                ELSE RuntimeErrorReturn(
                         Read(0), "Operands must be two numbers or two strings.")
          [] instruction = "OP_NOT" ->
                push(pop(Read(0)), BOOL_VAL(isFalsey(peek(mm, 0))))
          [] instruction = "OP_NEGATE" ->
                IF ~IS_NUMBER(peek(mm, 0))
                THEN RuntimeErrorReturn(Read(0), "Operand must be a number.")
                ELSE push(pop(Read(0)), NUMBER_VAL(0 - peek(mm, 0).number))
          [] instruction = "OP_PRINT" ->
                [pop(Read(0)) EXCEPT
                    !.stdout = Append(@, printValue(mm, peek(mm, 0)))]
          [] instruction = "OP_JUMP" -> Jump(frame.ip + 3 + short)
          [] instruction = "OP_JUMP_IF_FALSE" ->
                IF isFalsey(peek(mm, 0)) THEN Jump(frame.ip + 3 + short)
                ELSE Read(2)
          [] instruction = "OP_LOOP" -> Jump(frame.ip + 3 - short)
          [] instruction = "OP_CALL" -> OP_CALL(Read(1), byte, clock)
          [] instruction = "OP_INVOKE" ->
                OP_INVOKE(Read(2), constant.obj, chunk.code[frame.ip + 3], clock)
          [] instruction = "OP_GET_PROPERTY" ->
                OP_GET_PROPERTY(Read(1), constant.obj)
          [] instruction = "OP_SET_PROPERTY" ->
                OP_SET_PROPERTY(Read(1), constant.obj)
          [] instruction = "OP_CLASS" -> OP_CLASS(Read(1), constant.obj)
          [] instruction = "OP_METHOD" -> defineMethod(Read(1), constant.obj)
          [] instruction = "OP_CLOSURE" ->
                LET n == mm.heap[constant.obj].upvalueCount
                    m1 == newClosure(Read(1 + (2 * n)), constant.obj)
                    m2 == push(m1, OBJ_VAL(m1.ret))
                IN  closureUpvalues(m2, m1.ret, chunk.code, frame.ip + 2, 1, n)
          [] instruction = "OP_CLOSE_UPVALUE" ->
                pop(closeUpvalues(Read(0), mm.vm.stackTop - 1))
          [] instruction = "OP_RETURN" ->
                LET result == peek(mm, 0)
                    m1 == closeUpvalues(pop(Read(0)), frame.slots)
                    m2 == [m1 EXCEPT !.vm.frameCount = @ - 1,
                                     !.vm.frames = SubSeq(@, 1, fc - 1)]
                IN  IF m2.vm.frameCount = 0
                    THEN [pop(m2) EXCEPT !.running = FALSE,
                                         !.result = "INTERPRET_OK"]
                    ELSE push([m2 EXCEPT !.vm.stackTop = frame.slots], result)

(***************************************************************************)
(* The compiler (compiler.c, chunk.c, value.c).  A source text is the      *)
(* sequence of its words, each of which the scanner makes one token of; a  *)
(* token is [type, lexeme, line].                                          *)
(***************************************************************************)
Precedence ==
    [PREC_NONE |-> 0, PREC_ASSIGNMENT |-> 1, PREC_OR |-> 2, PREC_AND |-> 3,
     PREC_EQUALITY |-> 4, PREC_COMPARISON |-> 5, PREC_TERM |-> 6,
     PREC_FACTOR |-> 7, PREC_UNARY |-> 8, PREC_CALL |-> 9, PREC_PRIMARY |-> 10]

\* The token types of scanner.h by the word that makes them.
TokenTypes ==
    [w \in {"(", ")", "{", "}", ",", ";", "=", "+", "-", "*", "/", "!", "==",
            "<", ">", "and", "class", "else", "false", "for", "fun", "if",
            "nil", "or", "print", "return", "true", "var", "while", "@",
            ".", "this"} |->
       CASE w = "(" -> "TOKEN_LEFT_PAREN"   [] w = ")" -> "TOKEN_RIGHT_PAREN"
         [] w = "{" -> "TOKEN_LEFT_BRACE"   [] w = "}" -> "TOKEN_RIGHT_BRACE"
         [] w = "," -> "TOKEN_COMMA"        [] w = ";" -> "TOKEN_SEMICOLON"
         [] w = "=" -> "TOKEN_EQUAL"        [] w = "+" -> "TOKEN_PLUS"
         [] w = "-" -> "TOKEN_MINUS"        [] w = "*" -> "TOKEN_STAR"
         [] w = "/" -> "TOKEN_SLASH"        [] w = "!" -> "TOKEN_BANG"
         [] w = "==" -> "TOKEN_EQUAL_EQUAL" [] w = "<" -> "TOKEN_LESS"
         [] w = ">" -> "TOKEN_GREATER"      [] w = "and" -> "TOKEN_AND"
         [] w = "class" -> "TOKEN_CLASS"    [] w = "else" -> "TOKEN_ELSE"
         [] w = "false" -> "TOKEN_FALSE"    [] w = "for" -> "TOKEN_FOR"
         [] w = "fun" -> "TOKEN_FUN"        [] w = "if" -> "TOKEN_IF"
         [] w = "nil" -> "TOKEN_NIL"        [] w = "or" -> "TOKEN_OR"
         [] w = "print" -> "TOKEN_PRINT"    [] w = "return" -> "TOKEN_RETURN"
         [] w = "true" -> "TOKEN_TRUE"      [] w = "var" -> "TOKEN_VAR"
         [] w = "while" -> "TOKEN_WHILE"    [] w = "@" -> "TOKEN_ERROR"
         [] w = "." -> "TOKEN_DOT"          [] w = "this" -> "TOKEN_THIS"]

\* The bytes of the words that are identifiers, numbers and string literals.
Lexemes ==
    [w \in {"a", "b", "c", "f", "g", "h", "s", "x", "y"} |->
       CASE w = "a" -> <<97>>  [] w = "b" -> <<98>>  [] w = "c" -> <<99>>
         [] w = "f" -> <<102>> [] w = "g" -> <<103>> [] w = "h" -> <<104>>
         [] w = "s" -> <<115>> [] w = "x" -> <<120>> [] w = "y" -> <<121>>]
    @@ [w \in {"0", "1", "2", "3", "5"} |->
       CASE w = "0" -> <<48>> [] w = "1" -> <<49>> [] w = "2" -> <<50>>
         [] w = "3" -> <<51>> [] w = "5" -> <<53>>]
    @@ [w \in {"\"a\"", "\"b\"", "\"\""} |->
       CASE w = "\"a\"" -> <<34, 97, 34>> [] w = "\"b\"" -> <<34, 98, 34>>
         [] w = "\"\"" -> <<34, 34>>]
    @@ [w \in {"clock"} |-> <<99, 108, 111, 99, 107>>]
    @@ [w \in {"A", "n", "init", "show", "42"} |->
       CASE w = "A" -> <<65>> [] w = "n" -> <<110>>
         [] w = "init" -> <<105, 110, 105, 116>>
         [] w = "show" -> <<115, 104, 111, 119>>
         [] w = "42" -> <<52, 50>>]

\* The token the scanner makes of a word of the source; an error token
\* carries its message as lexeme.
makeToken(word) ==
    IF word = "@"
    THEN [type |-> "TOKEN_ERROR", lexeme |-> "Unexpected character.", line |-> 1]
    ELSE IF word = "..."
    THEN [type |-> "ELLIPSIS", lexeme |-> <<>>, line |-> 1]
    ELSE IF word \in DOMAIN TokenTypes
    THEN [type |-> TokenTypes[word], lexeme |-> <<>>, line |-> 1]
    ELSE [type |-> IF Lexemes[word][1] = 34 THEN "TOKEN_STRING"
                   ELSE IF Lexemes[word][1] \in 48..57 THEN "TOKEN_NUMBER"
                   ELSE "TOKEN_IDENTIFIER",
          lexeme |-> Lexemes[word], line |-> 1]

\* scanToken: the next token, and TOKEN_EOF for ever at the end
scanToken(mm) ==
    IF mm.ub # "" THEN mm ELSE
    IF mm.scanner.current <= Len(mm.scanner.source)
    THEN [mm EXCEPT !.scanner.current = @ + 1,
                    !.ret = makeToken(mm.scanner.source[mm.scanner.current])]
    ELSE [mm EXCEPT !.ret = [type |-> "TOKEN_EOF", lexeme |-> <<>>, line |-> 1]]

\* the compiler `current` points to
Current(mm) == mm.compilers[Len(mm.compilers)]

\* An entry of the ghost log m.diag: errorAt or synchronize was entered
\* with these flags of the parser, and wrote a diagnostic or did not.
Diagnostic(mm, routine, reported) ==
    [routine |-> routine, reported |-> reported,
     panicMode |-> mm.parser.panicMode, hadError |-> mm.parser.hadError]

\* errorAt that reports and does not record the error
errorAtUnrecorded(mm, token, message) ==
    IF mm.ub # "" THEN mm ELSE
    IF mm.parser.panicMode
    THEN [mm EXCEPT !.diag = Append(@, Diagnostic(mm, "errorAt", FALSE))]
    ELSE [mm EXCEPT !.parser.panicMode = TRUE,
                    !.stderr = Append(@, message),
                    !.diag = Append(@, Diagnostic(mm, "errorAt", TRUE))]

\* errorAt that reports in panic mode too
errorAtUnsuppressed(mm, token, message) ==
    IF mm.ub # "" THEN mm ELSE
    [mm EXCEPT !.parser.panicMode = TRUE,
               !.stderr = Append(@, message),
               !.parser.hadError = TRUE,
               !.diag = Append(@, Diagnostic(mm, "errorAt", TRUE))]

errorAt(mm, token, message) ==
    IF mm.ub # "" THEN mm ELSE
    IF mm.parser.panicMode
    THEN [mm EXCEPT !.diag = Append(@, Diagnostic(mm, "errorAt", FALSE))]
    ELSE [mm EXCEPT !.parser.panicMode = TRUE,
                    !.stderr = Append(@, message),
                    !.parser.hadError = TRUE,
                    !.diag = Append(@, Diagnostic(mm, "errorAt", TRUE))]

error(mm, message) ==
    IF mm.ub # "" THEN mm ELSE
    errorAt(mm, mm.parser.previous, message)

RECURSIVE advanceScan(_)
advanceScan(mm) ==
    IF mm.ub # "" THEN mm ELSE
    LET m1 == scanToken(mm)
        m2 == [m1 EXCEPT !.parser.current = m1.ret]
    IN  IF m1.ret.type # "TOKEN_ERROR" THEN m2
        ELSE advanceScan(errorAt(m2, m1.ret, m1.ret.lexeme))

advance(mm) == Invoke("advance", <<mm>>)

compiler_advance(mm) ==
    IF mm.ub # "" THEN mm ELSE
    advanceScan([mm EXCEPT !.parser.previous = mm.parser.current])

consume(mm, type, message) == Invoke("consume", <<mm, type, message>>)

compiler_consume(mm, type, message) ==
    IF mm.ub # "" THEN mm ELSE
    IF mm.parser.current.type = type THEN advance(mm)
    ELSE errorAt(mm, mm.parser.current, message)

check(mm, type) == mm.parser.current.type = type

\* match: check(mm, type) says whether it returns true
match(mm, type) ==
    IF mm.ub # "" THEN mm ELSE
    IF check(mm, type) THEN advance(mm) ELSE mm

writeChunk(mm, function, byte, line) ==
    IF mm.ub # "" THEN mm ELSE
    LET chunk == mm.heap[function].chunk
        capacity == GROW_CAPACITY(chunk.capacity)
        m1 == IF chunk.capacity < chunk.count + 1
              THEN reallocate(
                     reallocate(
                       [mm EXCEPT !.heap[function].chunk.capacity = capacity],
                       sizeof("uint8_t") * chunk.capacity,
                       sizeof("uint8_t") * capacity),
                     sizeof("int") * chunk.capacity, sizeof("int") * capacity)
              ELSE mm
    IN  [m1 EXCEPT !.heap[function].chunk.code = Append(@, byte),
                   !.heap[function].chunk.lines = Append(@, line),
                   !.heap[function].chunk.count = @ + 1]

\* addConstant with writeValueArray; m.ret is the index of the constant
addConstant(mm, function, value) ==
    IF mm.ub # "" THEN mm ELSE
    LET array == mm.heap[function].chunk.constants
        capacity == GROW_CAPACITY(array.capacity)
        m0 == IF array.capacity < array.count + 1
              THEN reallocate(
                     [Holding(mm, ValueObjs(value))
                         EXCEPT !.heap[function].chunk.constants.capacity =
                                    capacity],
                     sizeof("Value") * array.capacity,
                     sizeof("Value") * capacity)
              ELSE mm
        m1 == [m0 EXCEPT !.gc.held = mm.gc.held]
    IN  [m1 EXCEPT !.heap[function].chunk.constants.values = Append(@, value),
                   !.heap[function].chunk.constants.count = @ + 1,
                   !.ret = array.count]

emitByte(mm, byte) == Invoke("emitByte", <<mm, byte>>)

\* currentChunk()->count
ChunkCount(mm) == mm.heap[Current(mm).function].chunk.count

\* the locals of depth -1 of all compilers, as <<compiler, local>>
Unmarked(mm) ==
    UNION {{<<ci, i>> : i \in {j \in 1..Len(mm.compilers[ci].locals) :
                                  mm.compilers[ci].locals[j].depth = -1}} :
              ci \in 1..Len(mm.compilers)}

\* m.depths keeps what is seen where code is written or a name is resolved:
\* the locals of depth -1 and the locals whose declaration is at its
\* initializer
Observed(mm) ==
    [mm EXCEPT !.depths =
        @ \cup {[unmarked |-> Unmarked(mm),
                  initializing |-> {mm.initializing[i] :
                                       i \in 1..Len(mm.initializing)}]}]

compiler_emitByte(mm, byte) ==
    IF mm.ub # "" THEN mm ELSE
    writeChunk(Observed(mm), Current(mm).function, byte,
               mm.parser.previous.line)

emitBytes(mm, byte1, byte2) ==
    IF mm.ub # "" THEN mm ELSE
    emitByte(emitByte(mm, byte1), byte2)

\* An entry of the ghost log m.jumps: patchJump or emitLoop wrote the operand
\* at the offset `operand` of the code of the function so that the jump
\* leads to the offset `target`; panicMode is the flag of the parser when
\* the routine was entered, hadError the flag when it returned, said the
\* diagnostics it wrote.
JumpWritten(mm, m1, routine, operand, target) ==
    [routine |-> routine, function |-> Current(mm).function,
     operand |-> operand, target |-> target,
     panicMode |-> mm.parser.panicMode,
     hadError |-> m1.parser.hadError,
     said |-> SubSeq(m1.stderr, Len(mm.stderr) + 1, Len(m1.stderr))]

emitLoop(mm, loopStart) ==
    IF mm.ub # "" THEN mm ELSE
    LET m1 == emitByte(mm, "OP_LOOP")
        offset == m1.heap[Current(m1).function].chunk.count - loopStart + 2
        m2 == IF offset > UINT16_MAX THEN error(m1, "Loop body too large.") ELSE m1
        m3 == emitByte(emitByte(m2, (offset \div 256) % 256), offset % 256)
    IN  IF m3.ub # "" THEN m3
        ELSE [m3 EXCEPT !.jumps =
                 Append(@, JumpWritten(mm, m2, "emitLoop",
                                       ChunkCount(m1), loopStart))]

emitJump(mm, instruction) ==
    IF mm.ub # "" THEN mm ELSE
    LET m1 == emitByte(emitByte(emitByte(mm, instruction), 255), 255)
    IN  [m1 EXCEPT !.ret = m1.heap[Current(m1).function].chunk.count - 2]

emitReturn(mm) ==
    IF mm.ub # "" THEN mm ELSE
    emitByte(emitByte(mm, "OP_NIL"), "OP_RETURN")

makeConstant(mm, value) ==
    IF mm.ub # "" THEN mm ELSE
    LET m1 == addConstant(mm, Current(mm).function, value)
    IN  IF m1.ret > 255
        THEN [error(m1, "Too many constants in one chunk.") EXCEPT !.ret = 0]
        ELSE m1

emitConstant(mm, value) ==
    IF mm.ub # "" THEN mm ELSE
    LET m1 == makeConstant(mm, value)
    IN  emitBytes(m1, "OP_CONSTANT", m1.ret)

\* patchJump that writes the low byte of the distance only
patchJumpByte(mm, offset) ==
    IF mm.ub # "" THEN mm ELSE
    LET function == Current(mm).function
        jump == mm.heap[function].chunk.count - offset - 2
        m1 == IF jump > UINT16_MAX THEN error(mm, "Too much code to jump over.")
              ELSE mm
    IN  IF m1.ub # "" THEN m1 ELSE
        [m1 EXCEPT !.heap[function].chunk.code[offset + 1] = 0,
                   !.heap[function].chunk.code[offset + 2] = jump % 256,
                   !.jumps = Append(@, JumpWritten(mm, m1, "patchJump", offset,
                                                   ChunkCount(mm)))]

patchJump(mm, offset) ==
    IF mm.ub # "" THEN mm ELSE
    LET function == Current(mm).function
        jump == mm.heap[function].chunk.count - offset - 2
        m1 == IF jump > UINT16_MAX THEN error(mm, "Too much code to jump over.")
              ELSE mm
    IN  IF m1.ub # "" THEN m1 ELSE
        [m1 EXCEPT !.heap[function].chunk.code[offset + 1] = (jump \div 256) % 256,
                   !.heap[function].chunk.code[offset + 2] = jump % 256,
                   !.jumps = Append(@, JumpWritten(mm, m1, "patchJump", offset,
                                                   ChunkCount(mm)))]

initCompiler(mm, type) == Invoke("initCompiler", <<mm, type>>)

compiler_initCompiler(mm, type) ==
    IF mm.ub # "" THEN mm ELSE
    LET m1 == newFunction(mm)
        function == m1.ret
        m2 == [m1 EXCEPT !.compilers =
                  Append(@, [function |-> function, type |-> type,
                             locals |-> <<>>, upvalues |-> <<>>,
                             scopeDepth |-> 0])]
        m3 == copyString(m2, m2.parser.previous.lexeme)
        m4 == IF type # "TYPE_SCRIPT"
              THEN [m3 EXCEPT !.heap[function].name = m3.ret]
              ELSE m2
    IN  [m4 EXCEPT !.compilers[Len(m4.compilers)].locals =
            <<[name |-> <<>>, depth |-> 0, isCaptured |-> FALSE]>>]

\* endCompiler; m.ret is the function
endCompiler(mm) ==
    IF mm.ub # "" THEN mm ELSE
    LET m1 == emitReturn(mm)
    IN  [m1 EXCEPT !.compilers = SubSeq(@, 1, Len(@) - 1),
                   !.ret = Current(m1).function]

beginScope(mm) == Invoke("beginScope", <<mm>>)

compiler_beginScope(mm) ==
    IF mm.ub # "" THEN mm ELSE
    [mm EXCEPT !.compilers[Len(mm.compilers)].scopeDepth = @ + 1]

\* the while loop of endScope
RECURSIVE endScopePop(_)
endScopePop(mm) ==
    IF mm.ub # "" THEN mm ELSE
    LET c == Current(mm)
        n == Len(c.locals)
    IN  IF n > 0 /\ c.locals[n].depth > c.scopeDepth
        THEN endScopePop(
                 [emitByte(mm, IF c.locals[n].isCaptured
                               THEN "OP_CLOSE_UPVALUE" ELSE "OP_POP")
                     EXCEPT !.compilers[Len(mm.compilers)].locals =
                                SubSeq(@, 1, n - 1)])
        ELSE mm

\* endScope that forgets the locals of the scope without popping them
endScopeForgets(mm) ==
    IF mm.ub # "" THEN mm ELSE
    LET c == Current(mm)
        kept == {i \in 1..Len(c.locals) : c.locals[i].depth < c.scopeDepth}
    IN  [mm EXCEPT !.compilers[Len(mm.compilers)].scopeDepth = @ - 1,
                   !.compilers[Len(mm.compilers)].locals =
                       SubSeq(@, 1, Cardinality(kept))]

endScope(mm) ==
    IF mm.ub # "" THEN mm ELSE
    endScopePop([mm EXCEPT !.compilers[Len(mm.compilers)].scopeDepth = @ - 1])

identifierConstant(mm, name) ==
    IF mm.ub # "" THEN mm ELSE
    LET m1 == copyString(mm, name.lexeme)
    IN  makeConstant(m1, OBJ_VAL(m1.ret))

\* resolveLocal on compiler ci of the chain, from local i downwards;
\* m.ret is the index or -1
RECURSIVE resolveLocalFrom(_, _, _, _)
resolveLocalFrom(mm, ci, name, i) ==
    IF mm.ub # "" THEN mm ELSE
    IF i < 0 THEN [mm EXCEPT !.ret = -1]
    ELSE LET local == mm.compilers[ci].locals[i + 1]
         IN  IF name.lexeme = local.name
             THEN [(IF local.depth = -1
                    THEN error(mm, "Can't read local variable in its own initializer.")
                    ELSE mm) EXCEPT !.ret = i]
             ELSE resolveLocalFrom(mm, ci, name, i - 1)

resolveLocal(mm, ci, name) == Invoke("resolveLocal", <<mm, ci, name>>)

\* what a routine on the locals of a compiler was given and what it did,
\* for the log m.names
Named(mm, m1, routine, ci, name) ==
    [routine |-> routine,
     name |-> name.lexeme,
     locals |-> mm.compilers[ci].locals,
     scopeDepth |-> mm.compilers[ci].scopeDepth,
     panicMode |-> mm.parser.panicMode,
     hadError |-> m1.parser.hadError,
     said |-> SubSeq(m1.stderr, Len(mm.stderr) + 1, Len(m1.stderr)),
     ret |-> m1.ret]

\* resolveLocal that looks for the name from the first local upwards
RECURSIVE resolveLocalUp(_, _, _, _)
resolveLocalUp(mm, ci, name, i) ==
    IF i >= Len(mm.compilers[ci].locals) THEN [mm EXCEPT !.ret = -1]
    ELSE IF name.lexeme = mm.compilers[ci].locals[i + 1].name
    THEN [mm EXCEPT !.ret = i]
    ELSE resolveLocalUp(mm, ci, name, i + 1)

resolveLocalOutermost(mm, ci, name) ==
    IF mm.ub # "" THEN mm ELSE
    LET m1 == resolveLocalUp(mm, ci, name, 0)
    IN  [m1 EXCEPT !.names = Append(@, Named(mm, m1, "resolveLocal", ci, name))]

compiler_resolveLocal(mm, ci, name) ==
    IF mm.ub # "" THEN mm ELSE
    LET m1 == resolveLocalFrom(Observed(mm), ci, name,
                               Len(mm.compilers[ci].locals) - 1)
    IN  [m1 EXCEPT !.names = Append(@, Named(mm, m1, "resolveLocal", ci, name))]

\* addUpvalue has no bound on upvalueCount: entry UINT8_COUNT is outside
\* compiler->upvalues.
addUpvalue(mm, ci, index, isLocal) ==
    IF mm.ub # "" THEN mm ELSE
    LET c == mm.compilers[ci]
        upvalueCount == mm.heap[c.function].upvalueCount
        same == {i \in 1..upvalueCount :
                    c.upvalues[i].index = index /\ c.upvalues[i].isLocal = isLocal}
    IN  IF same # {}
        THEN [mm EXCEPT !.ret = (CHOOSE i \in same : \A j \in same : i <= j) - 1]
        ELSE [mm EXCEPT
                !.compilers[ci].upvalues =
                    Append(@, [isLocal |-> isLocal, index |-> index]),
                !.heap[c.function].upvalueCount = @ + 1,
                !.ub = IF upvalueCount >= UINT8_COUNT /\ @ = ""
                       THEN "write outside compiler->upvalues" ELSE @,
                !.ret = upvalueCount]

RECURSIVE resolveUpvalue(_, _, _)

resolveUpvalue(mm, ci, name) ==
    IF mm.ub # "" THEN mm ELSE
    IF ci = 1 THEN [mm EXCEPT !.ret = -1]
    ELSE LET m1 == resolveLocal(mm, ci - 1, name)
             local == m1.ret
             m2 == resolveUpvalue(m1, ci - 1, name)
             upvalue == m2.ret
         IN  IF local # -1
             THEN addUpvalue(
                      [m1 EXCEPT !.compilers[ci - 1].locals[local + 1].isCaptured =
                                     TRUE],
                      ci, local % 256, TRUE)
             ELSE IF upvalue # -1
             THEN addUpvalue(m2, ci, upvalue % 256, FALSE)
             ELSE [m2 EXCEPT !.ret = -1]

\* addLocal that declares the variable initialized at once
addLocalInitialized(mm, name) ==
    IF mm.ub # "" THEN mm ELSE
    IF Len(Current(mm).locals) = UINT8_COUNT
    THEN error(mm, "Too many local variables in function.")
    ELSE [mm EXCEPT !.compilers[Len(mm.compilers)].locals =
             Append(@, [name |-> name.lexeme,
                        depth |-> Current(mm).scopeDepth,
                        isCaptured |-> FALSE])]

addLocal(mm, name) ==
    IF mm.ub # "" THEN mm ELSE
    IF Len(Current(mm).locals) = UINT8_COUNT
    THEN error(mm, "Too many local variables in function.")
    ELSE [mm EXCEPT !.compilers[Len(mm.compilers)].locals =
             Append(@, [name |-> name.lexeme, depth |-> -1,
                        isCaptured |-> FALSE])]

\* the loop of declareVariable: is the name declared in the current scope
RECURSIVE declaredInScope(_, _, _, _)
declaredInScope(locals, i, scopeDepth, name) ==
    IF i < 1 THEN FALSE
    ELSE IF locals[i].depth # -1 /\ locals[i].depth < scopeDepth THEN FALSE
    ELSE (name.lexeme = locals[i].name)
         \/ declaredInScope(locals, i - 1, scopeDepth, name)

\* declareVariable that accepts every name
declareVariableUnchecked(mm) ==
    IF mm.ub # "" THEN mm ELSE
    LET c == Current(mm)
        name == mm.parser.previous
        m1 == addLocal(mm, name)
    IN  IF c.scopeDepth = 0 THEN mm
        ELSE [m1 EXCEPT !.names =
                 Append(@, Named(mm, m1, "declareVariable", Len(mm.compilers),
                                 name))]

declareVariable(mm) ==
    IF mm.ub # "" THEN mm ELSE
    LET c == Current(mm)
        name == mm.parser.previous
        m1 == addLocal(
                 IF declaredInScope(c.locals, Len(c.locals), c.scopeDepth, name)
                 THEN error(mm, "Already a variable with this name in this scope.")
                 ELSE mm,
                 name)
    IN  IF c.scopeDepth = 0 THEN mm
        ELSE [m1 EXCEPT !.names =
                 Append(@, Named(mm, m1, "declareVariable", Len(mm.compilers),
                                 name))]

parseVariable(mm, errorMessage) == Invoke("parseVariable", <<mm, errorMessage>>)

compiler_parseVariable(mm, errorMessage) ==
    IF mm.ub # "" THEN mm ELSE
    LET m1 == declareVariable(consume(mm, "TOKEN_IDENTIFIER", errorMessage))
    IN  IF Current(m1).scopeDepth > 0 THEN [m1 EXCEPT !.ret = 0]
        ELSE identifierConstant(m1, m1.parser.previous)

markInitialized(mm) ==
    IF mm.ub # "" THEN mm ELSE
    IF Current(mm).scopeDepth = 0 THEN mm
    ELSE [mm EXCEPT !.compilers[Len(mm.compilers)].locals[
                        Len(Current(mm).locals)].depth = Current(mm).scopeDepth]

defineVariable(mm, global) ==
    IF mm.ub # "" THEN mm ELSE
    IF Current(mm).scopeDepth > 0 THEN markInitialized(mm)
    ELSE emitBytes(mm, "OP_DEFINE_GLOBAL", global)

parsePrecedence(mm, precedence) == Invoke("parsePrecedence", <<mm, precedence>>)
RECURSIVE declaration(_)
statement(mm) == Invoke("statement", <<mm>>)

RECURSIVE expression(_)

expression(mm) ==
    IF mm.ub # "" THEN mm ELSE
    parsePrecedence(mm, Precedence.PREC_ASSIGNMENT)

\* rules[type] (compiler.c:665-706)
getRule(type) ==
    LET Rule(prefix, infix, precedence) ==
            [prefix |-> prefix, infix |-> infix, precedence |-> precedence]
    IN  CASE type = "TOKEN_LEFT_PAREN" ->
                Rule("grouping", "call", Precedence.PREC_CALL)
          [] type = "TOKEN_MINUS" -> Rule("unary", "binary", Precedence.PREC_TERM)
          [] type = "TOKEN_PLUS" -> Rule("NULL", "binary", Precedence.PREC_TERM)
          [] type \in {"TOKEN_SLASH", "TOKEN_STAR"} ->
                Rule("NULL", "binary", Precedence.PREC_FACTOR)
          [] type = "TOKEN_BANG" -> Rule("unary", "NULL", Precedence.PREC_NONE)
          [] type \in {"TOKEN_BANG_EQUAL", "TOKEN_EQUAL_EQUAL"} ->
                Rule("NULL", "binary", Precedence.PREC_EQUALITY)
          [] type \in {"TOKEN_GREATER", "TOKEN_GREATER_EQUAL", "TOKEN_LESS",
                       "TOKEN_LESS_EQUAL"} ->
                Rule("NULL", "binary", Precedence.PREC_COMPARISON)
          [] type = "TOKEN_IDENTIFIER" ->
                Rule("variable", "NULL", Precedence.PREC_NONE)
          [] type = "TOKEN_STRING" -> Rule("string", "NULL", Precedence.PREC_NONE)
          [] type = "TOKEN_NUMBER" -> Rule("number", "NULL", Precedence.PREC_NONE)
          [] type = "TOKEN_AND" -> Rule("NULL", "and_", Precedence.PREC_AND)
          [] type \in {"TOKEN_FALSE", "TOKEN_NIL", "TOKEN_TRUE"} ->
                Rule("literal", "NULL", Precedence.PREC_NONE)
          [] type = "TOKEN_OR" -> Rule("NULL", "or_", Precedence.PREC_OR)
          [] OTHER -> Rule("NULL", "NULL", Precedence.PREC_NONE)

\* the do-while loop of argumentList; argCount is a uint8_t
RECURSIVE argumentLoop(_, _)
argumentLoop(mm, argCount) ==
    IF mm.ub # "" THEN mm ELSE
    LET m1 == expression(mm)
        m2 == IF argCount = 255
              THEN error(m1, "Can't have more than 255 arguments.") ELSE m1
    IN  (IF m1.ub # "" THEN m1 ELSE IF check(m2, "TOKEN_COMMA")
                 THEN argumentLoop(advance(m2), (argCount + 1) % 256)
                 ELSE [m2 EXCEPT !.ret = (argCount + 1) % 256])

argumentList(mm) ==
    IF mm.ub # "" THEN mm ELSE
    LET m1 == IF ~check(mm, "TOKEN_RIGHT_PAREN") THEN argumentLoop(mm, 0)
              ELSE [mm EXCEPT !.ret = 0]
    IN  (IF m1.ub # "" THEN m1 ELSE [consume(m1, "TOKEN_RIGHT_PAREN",
                          "Expect ')' after arguments.")
                     EXCEPT !.ret = m1.ret])

\* An entry of the ghost log m.spans: the routine `kind`, entered on the
\* machine mm and left on the machine m1, compiled the code of the function
\* from the offset start up to the offset end.
Span(mm, m1, kind) ==
    [kind |-> kind, function |-> Current(mm).function,
     start |-> ChunkCount(mm), end |-> ChunkCount(m1)]

\* the machine with the span of the routine in the log
Spanned(mm, m1, kind) ==
    IF m1.ub # "" THEN m1
    ELSE [m1 EXCEPT !.spans = Append(@, Span(mm, m1, kind))]

and_(mm, canAssign) ==
    IF mm.ub # "" THEN mm ELSE
    LET m1 == emitJump(mm, "OP_JUMP_IF_FALSE")
        m2 == parsePrecedence(emitByte(m1, "OP_POP"), Precedence.PREC_AND)
    IN  (IF m2.ub # "" THEN m2 ELSE Spanned(mm, patchJump(m2, m1.ret), "and_"))

binary(mm, canAssign) ==
    IF mm.ub # "" THEN mm ELSE
    LET operatorType == mm.parser.previous.type
        m1 == parsePrecedence(mm, getRule(operatorType).precedence + 1)
    IN  (IF m1.ub # "" THEN m1 ELSE CASE operatorType = "TOKEN_BANG_EQUAL" ->
                  emitBytes(m1, "OP_EQUAL", "OP_NOT")
            [] operatorType = "TOKEN_EQUAL_EQUAL" -> emitByte(m1, "OP_EQUAL")
            [] operatorType = "TOKEN_GREATER" -> emitByte(m1, "OP_GREATER")
            [] operatorType = "TOKEN_GREATER_EQUAL" ->
                  emitBytes(m1, "OP_LESS", "OP_NOT")
            [] operatorType = "TOKEN_LESS" -> emitByte(m1, "OP_LESS")
            [] operatorType = "TOKEN_LESS_EQUAL" ->
                  emitBytes(m1, "OP_GREATER", "OP_NOT")
            [] operatorType = "TOKEN_PLUS" -> emitByte(m1, "OP_ADD")
            [] operatorType = "TOKEN_MINUS" -> emitByte(m1, "OP_SUBTRACT")
            [] operatorType = "TOKEN_STAR" -> emitByte(m1, "OP_MULTIPLY")
            [] operatorType = "TOKEN_SLASH" -> emitByte(m1, "OP_DIVIDE")
            [] OTHER -> m1)

\* call (compiler.c:535-540), renamed apart from call of vm.c
compileCall(mm, canAssign) ==
    IF mm.ub # "" THEN mm ELSE
    LET m1 == argumentList(mm)
    IN  (IF m1.ub # "" THEN m1 ELSE emitBytes(m1, "OP_CALL", m1.ret))

literal(mm, canAssign) ==
    IF mm.ub # "" THEN mm ELSE
    CASE mm.parser.previous.type = "TOKEN_FALSE" -> emitByte(mm, "OP_FALSE")
      [] mm.parser.previous.type = "TOKEN_NIL" -> emitByte(mm, "OP_NIL")
      [] mm.parser.previous.type = "TOKEN_TRUE" -> emitByte(mm, "OP_TRUE")
      [] OTHER -> mm

grouping(mm, canAssign) ==
    IF mm.ub # "" THEN mm ELSE
    LET m1 == expression(mm)
    IN  (IF m1.ub # "" THEN m1 ELSE consume(m1, "TOKEN_RIGHT_PAREN",
                         "Expect ')' after expression."))

\* strtod on a lexeme of decimal digits
RECURSIVE strtod(_, _, _)
strtod(chars, i, value) ==
    IF i > Len(chars) \/ chars[i] < 48 \/ chars[i] > 57 THEN value
    ELSE strtod(chars, i + 1, (value * 10) + (chars[i] - 48))

number(mm, canAssign) ==
    IF mm.ub # "" THEN mm ELSE
    emitConstant(mm, NUMBER_VAL(strtod(mm.parser.previous.lexeme, 1, 0)))

or_(mm, canAssign) ==
    IF mm.ub # "" THEN mm ELSE
    LET m1 == emitJump(mm, "OP_JUMP_IF_FALSE")
        m2 == emitJump(m1, "OP_JUMP")
        m3 == emitByte(patchJump(m2, m1.ret), "OP_POP")
        m4 == parsePrecedence(m3, Precedence.PREC_OR)
    IN  (IF m4.ub # "" THEN m4 ELSE Spanned(mm, patchJump(m4, m2.ret), "or_"))

string(mm, canAssign) ==
    IF mm.ub # "" THEN mm ELSE
    LET lexeme == mm.parser.previous.lexeme
        m1 == copyString(mm, SubSeq(lexeme, 2, Len(lexeme) - 1))
    IN  (IF m1.ub # "" THEN m1 ELSE emitConstant(m1, OBJ_VAL(m1.ret)))

namedVariable(mm, name, canAssign) ==
    IF mm.ub # "" THEN mm ELSE
    LET ci == Len(mm.compilers)
        m1 == resolveLocal(mm, ci, name)
        m2 == resolveUpvalue(m1, ci, name)
        m3 == identifierConstant(m2, name)
        m4 == IF m1.ret # -1 THEN m1 ELSE IF m2.ret # -1 THEN m2 ELSE m3
        getOp == IF m1.ret # -1 THEN "OP_GET_LOCAL"
                 ELSE IF m2.ret # -1 THEN "OP_GET_UPVALUE" ELSE "OP_GET_GLOBAL"
        setOp == IF m1.ret # -1 THEN "OP_SET_LOCAL"
                 ELSE IF m2.ret # -1 THEN "OP_SET_UPVALUE" ELSE "OP_SET_GLOBAL"
        arg == m4.ret % 256
        m5 == expression(advance(m4))
    IN  (IF m4.ub # "" THEN m4 ELSE IF canAssign /\ check(m4, "TOKEN_EQUAL")
                 THEN (IF m5.ub # "" THEN m5 ELSE emitBytes(m5, setOp, arg))
                 ELSE emitBytes(m4, getOp, arg))

variable(mm, canAssign) ==
    IF mm.ub # "" THEN mm ELSE
    namedVariable(mm, mm.parser.previous, canAssign)

unary(mm, canAssign) ==
    IF mm.ub # "" THEN mm ELSE
    LET operatorType == mm.parser.previous.type
        m1 == parsePrecedence(mm, Precedence.PREC_UNARY)
    IN  (IF m1.ub # "" THEN m1 ELSE CASE operatorType = "TOKEN_BANG" -> emitByte(m1, "OP_NOT")
                   [] operatorType = "TOKEN_MINUS" -> emitByte(m1, "OP_NEGATE")
                   [] OTHER -> m1)

ParseFn(mm, fn, canAssign) == Invoke("ParseFn", <<mm, fn, canAssign>>)

\* calling a ParseFn
compiler_ParseFn(mm, fn, canAssign) ==
    IF mm.ub # "" THEN mm ELSE
    CASE fn = "grouping" -> grouping(mm, canAssign)
      [] fn = "call" -> compileCall(mm, canAssign)
      [] fn = "unary" -> unary(mm, canAssign)
      [] fn = "binary" -> binary(mm, canAssign)
      [] fn = "variable" -> variable(mm, canAssign)
      [] fn = "string" -> string(mm, canAssign)
      [] fn = "number" -> number(mm, canAssign)
      [] fn = "and_" -> and_(mm, canAssign)
      [] fn = "literal" -> literal(mm, canAssign)
      [] fn = "or_" -> or_(mm, canAssign)

\* the while loop of parsePrecedence
RECURSIVE parseInfix(_, _, _)
parseInfix(mm, precedence, canAssign) ==
    IF mm.ub # "" THEN mm ELSE
    IF precedence <= getRule(mm.parser.current.type).precedence
    THEN LET m1 == advance(mm)
             m2 == ParseFn(m1, getRule(m1.parser.previous.type).infix,
                           canAssign)
         IN  (IF m2.ub # "" THEN m2 ELSE parseInfix(m2, precedence, canAssign))
    ELSE mm

compiler_parsePrecedence(mm, precedence) ==
    IF mm.ub # "" THEN mm ELSE
    LET m1 == advance(mm)
        prefixRule == getRule(m1.parser.previous.type).prefix
        canAssign == precedence <= Precedence.PREC_ASSIGNMENT
        m2 == ParseFn(m1, prefixRule, canAssign)
        m3 == parseInfix(m2, precedence, canAssign)
    IN  IF prefixRule = "NULL" THEN error(m1, "Expect expression.")
        ELSE (IF m2.ub # "" THEN m2 ELSE (IF m3.ub # "" THEN m3 ELSE IF canAssign /\ check(m3, "TOKEN_EQUAL")
                               THEN error(advance(m3),
                                          "Invalid assignment target.")
                               ELSE m3))

RECURSIVE block(_)
block(mm) ==
    IF mm.ub # "" THEN mm ELSE
    IF ~check(mm, "TOKEN_RIGHT_BRACE") /\ ~check(mm, "TOKEN_EOF")
    THEN LET m1 == declaration(mm) IN (IF m1.ub # "" THEN m1 ELSE block(m1))
    ELSE consume(mm, "TOKEN_RIGHT_BRACE", "Expect '}' after block.")

\* the do-while loop over the parameters in function()
parameters(mm) == Invoke("parameters", <<mm>>)
compiler_parameters(mm) ==
    IF mm.ub # "" THEN mm ELSE
    LET fn == Current(mm).function
        m1 == [mm EXCEPT !.heap[fn].arity = @ + 1]
        m2 == IF m1.heap[fn].arity > 255
              THEN errorAt(m1, m1.parser.current,
                           "Can't have more than 255 parameters.")
              ELSE m1
        m3 == parseVariable(m2, "Expect parameter name.")
        m4 == defineVariable(m3, m3.ret)
    IN  (IF m4.ub # "" THEN m4 ELSE IF check(m4, "TOKEN_COMMA") THEN parameters(advance(m4))
                 ELSE m4)

\* the loop of function() without the isLocal byte
RECURSIVE emitUpvalueIndexes(_, _, _, _)
emitUpvalueIndexes(mm, upvalues, i, n) ==
    IF mm.ub # "" THEN mm ELSE
    IF i > n THEN mm
    ELSE emitUpvalueIndexes(emitByte(mm, upvalues[i].index), upvalues, i + 1, n)

\* the loop of function() that emits the operands of OP_CLOSURE
RECURSIVE emitUpvalues(_, _, _, _)
emitUpvalues(mm, upvalues, i, n) ==
    IF mm.ub # "" THEN mm ELSE
    IF i > n THEN mm
    ELSE emitUpvalues(
             emitByte(emitByte(mm, IF upvalues[i].isLocal THEN 1 ELSE 0),
                      upvalues[i].index),
             upvalues, i + 1, n)

function(mm, type) == Invoke("function", <<mm, type>>)

compiler_function(mm, type) ==
    IF mm.ub # "" THEN mm ELSE
    LET m1 == consume(beginScope(initCompiler(mm, type)), "TOKEN_LEFT_PAREN",
                      "Expect '(' after function name.")
        m2 == IF ~check(m1, "TOKEN_RIGHT_PAREN") THEN parameters(m1) ELSE m1
        m3 == consume(m2, "TOKEN_RIGHT_PAREN", "Expect ')' after parameters.")
        m4 == block(consume(m3, "TOKEN_LEFT_BRACE",
                            "Expect '{' before function body."))
        upvalues == Current(m4).upvalues
        m5 == endCompiler(m4)
        m6 == makeConstant(m5, OBJ_VAL(m5.ret))
    IN  (IF m3.ub # "" THEN m3 ELSE (IF m4.ub # "" THEN m4 ELSE (IF m6.ub # "" THEN m6 ELSE emitUpvalues(emitBytes(m6, "OP_CLOSURE", m6.ret), upvalues, 1,
                         m6.heap[m5.ret].upvalueCount))))

\* funDeclaration that marks the name after the function is compiled
funDeclarationMarksLate(mm) ==
    IF mm.ub # "" THEN mm ELSE
    LET m1 == parseVariable(mm, "Expect function name.")
        m2 == function(m1, "TYPE_FUNCTION")
    IN  (IF m1.ub # "" THEN m1 ELSE (IF m2.ub # "" THEN m2 ELSE defineVariable(m2, m1.ret)))

funDeclaration(mm) ==
    IF mm.ub # "" THEN mm ELSE
    LET m1 == parseVariable(mm, "Expect function name.")
        m2 == function(markInitialized(m1), "TYPE_FUNCTION")
    IN  (IF m1.ub # "" THEN m1 ELSE (IF m2.ub # "" THEN m2 ELSE defineVariable(m2, m1.ret)))

varDeclaration(mm) == Invoke("varDeclaration", <<mm>>)

\* the declaration of a local is at its initializer: m.initializing has
\* the local that parseVariable added, if it added one
AtInitializer(mm, m1) ==
    IF m1.ub = "" /\ Len(Current(m1).locals) > Len(Current(mm).locals)
    THEN [m1 EXCEPT !.initializing =
             Append(@, <<Len(m1.compilers), Len(Current(m1).locals)>>)]
    ELSE m1

compiler_varDeclaration(mm) ==
    IF mm.ub # "" THEN mm ELSE
    LET m1 == AtInitializer(mm, parseVariable(mm, "Expect variable name."))
        m2 == IF check(m1, "TOKEN_EQUAL") THEN expression(advance(m1))
              ELSE emitByte(m1, "OP_NIL")
    IN  (IF m1.ub # "" THEN m1 ELSE (IF m2.ub # "" THEN m2 ELSE defineVariable(consume([m2 EXCEPT !.initializing = mm.initializing], "TOKEN_SEMICOLON",
                                   "Expect ';' after variable declaration."),
                           m1.ret)))

\* expressionStatement that leaves the value of the expression on the stack
expressionStatementKeeps(mm) ==
    IF mm.ub # "" THEN mm ELSE
    LET m1 == expression(mm)
    IN  (IF m1.ub # "" THEN m1 ELSE consume(m1, "TOKEN_SEMICOLON",
                                            "Expect ';' after expression."))

expressionStatement(mm) ==
    IF mm.ub # "" THEN mm ELSE
    LET m1 == expression(mm)
    IN  (IF m1.ub # "" THEN m1 ELSE emitByte(consume(m1, "TOKEN_SEMICOLON",
                                  "Expect ';' after expression."),
                          "OP_POP"))

\* the end of forStatement: the body, the loop back and the exit jump
forBody(mm, loopStart, exitJump) ==
    LET m9 == statement(mm)
        m10 == emitLoop(m9, loopStart)
    IN  (IF mm.ub # "" THEN mm ELSE (IF m9.ub # "" THEN m9 ELSE endScope(IF exitJump # -1
                     THEN emitByte(patchJump(m10, exitJump), "OP_POP")
                     ELSE m10)))

forStatement(mm) ==
    IF mm.ub # "" THEN mm ELSE
    LET m1 == consume(beginScope(mm), "TOKEN_LEFT_PAREN",
                      "Expect '(' after 'for'.")
        m2 == IF check(m1, "TOKEN_SEMICOLON") THEN advance(m1)
              ELSE IF check(m1, "TOKEN_VAR") THEN varDeclaration(advance(m1))
              ELSE expressionStatement(m1)
        loopStart == ChunkCount(m2)
        hasCondition == ~check(m2, "TOKEN_SEMICOLON")
        m3 == expression(m2)
        m4 == IF hasCondition
              THEN (IF m3.ub # "" THEN m3 ELSE emitJump(consume(m3, "TOKEN_SEMICOLON",
                                         "Expect ';' after loop condition."),
                                     "OP_JUMP_IF_FALSE"))
              ELSE [advance(m2) EXCEPT !.ret = -1]
        exitJump == m4.ret
        m5 == IF hasCondition THEN emitByte(m4, "OP_POP") ELSE m4
        hasIncrement == ~check(m5, "TOKEN_RIGHT_PAREN")
        m6 == emitJump(m5, "OP_JUMP")
        incrementStart == ChunkCount(m6)
        m7 == expression(m6)
        m8 == IF hasIncrement
              THEN (IF m7.ub # "" THEN m7 ELSE patchJump(
                       emitLoop(consume(emitByte(m7, "OP_POP"),
                                        "TOKEN_RIGHT_PAREN",
                                        "Expect ')' after for clauses."),
                                loopStart),
                       m6.ret))
              ELSE advance(m5)
    IN  (IF m2.ub # "" THEN m2 ELSE (IF m4.ub # "" THEN m4 ELSE forBody(m8, IF hasIncrement THEN incrementStart ELSE loopStart,
                    exitJump)))

ifStatement(mm) ==
    IF mm.ub # "" THEN mm ELSE
    LET m1 == expression(consume(mm, "TOKEN_LEFT_PAREN",
                                 "Expect '(' after 'if'."))
        m2 == emitJump(consume(m1, "TOKEN_RIGHT_PAREN",
                               "Expect ')' after condition."),
                       "OP_JUMP_IF_FALSE")
        m3 == statement(emitByte(m2, "OP_POP"))
        m4 == emitJump(m3, "OP_JUMP")
        m5 == emitByte(patchJump(m4, m2.ret), "OP_POP")
        m6 == IF check(m5, "TOKEN_ELSE") THEN statement(advance(m5)) ELSE m5
    IN  (IF m1.ub # "" THEN m1 ELSE (IF m3.ub # "" THEN m3 ELSE (IF m6.ub # "" THEN m6 ELSE patchJump(m6, m4.ret))))

printStatement(mm) ==
    IF mm.ub # "" THEN mm ELSE
    LET m1 == expression(mm)
    IN  (IF m1.ub # "" THEN m1 ELSE emitByte(consume(m1, "TOKEN_SEMICOLON",
                                  "Expect ';' after value."),
                          "OP_PRINT"))

returnStatement(mm) ==
    IF mm.ub # "" THEN mm ELSE
    LET m1 == IF Current(mm).type = "TYPE_SCRIPT"
              THEN error(mm, "Can't return from top-level code.") ELSE mm
        m2 == expression(m1)
    IN  IF check(m1, "TOKEN_SEMICOLON") THEN emitReturn(advance(m1))
        ELSE (IF m2.ub # "" THEN m2 ELSE emitByte(consume(m2, "TOKEN_SEMICOLON",
                                       "Expect ';' after return value."),
                               "OP_RETURN"))

whileStatement(mm) ==
    IF mm.ub # "" THEN mm ELSE
    LET loopStart == ChunkCount(mm)
        m1 == expression(consume(mm, "TOKEN_LEFT_PAREN",
                                 "Expect '(' after 'while'."))
        m2 == emitJump(consume(m1, "TOKEN_RIGHT_PAREN",
                               "Expect ')' after condition."),
                       "OP_JUMP_IF_FALSE")
        m3 == statement(emitByte(m2, "OP_POP"))
    IN  (IF m1.ub # "" THEN m1 ELSE (IF m3.ub # "" THEN m3 ELSE emitByte(patchJump(emitLoop(m3, loopStart), m2.ret),
                                   "OP_POP")))

\* the while loop of synchronize
RECURSIVE synchronizeSkip(_)
synchronizeSkip(mm) ==
    IF mm.ub # "" THEN mm ELSE
    IF mm.parser.current.type = "TOKEN_EOF" THEN mm
    ELSE IF mm.parser.previous.type = "TOKEN_SEMICOLON" THEN mm
    ELSE IF mm.parser.current.type \in
               {"TOKEN_CLASS", "TOKEN_FUN", "TOKEN_VAR", "TOKEN_FOR",
                "TOKEN_IF", "TOKEN_WHILE", "TOKEN_PRINT", "TOKEN_RETURN"}
    THEN mm
    ELSE synchronizeSkip(advance(mm))

synchronize(mm) ==
    IF mm.ub # "" THEN mm ELSE
    synchronizeSkip([mm EXCEPT !.parser.panicMode = FALSE,
                               !.diag = Append(@, Diagnostic(mm, "synchronize",
                                                             FALSE))])

\* the capacity writeChunk has grown a chunk to when its count is count
RECURSIVE Grown(_, _)
Grown(capacity, count) ==
    IF capacity >= count THEN capacity
    ELSE Grown(GROW_CAPACITY(capacity), count)

\* The word "..." of a source stands for statements that compile to
\* m.ellipsis bytes: `!nil;` once if the number is odd (OP_NIL, OP_NOT,
\* OP_POP), then `nil;` (OP_NIL, OP_POP) as often as it takes.  This is the
\* chunk after statement() has compiled them: writeChunk has appended the
\* bytes and their lines and has grown the two arrays.
statements(mm) ==
    IF mm.ub # "" THEN mm ELSE
    LET fn == Current(mm).function
        chunk == mm.heap[fn].chunk
        n == mm.ellipsis
        capacity == Grown(chunk.capacity, chunk.count + n)
        code == [i \in 1..n |->
                    IF n % 2 = 1 /\ i <= 3
                    THEN <<"OP_NIL", "OP_NOT", "OP_POP">>[i]
                    ELSE IF (n - i) % 2 = 1 THEN "OP_NIL" ELSE "OP_POP"]
        m1 == IF chunk.capacity < capacity
              THEN reallocate(
                     reallocate(
                       [mm EXCEPT !.heap[fn].chunk.capacity = capacity],
                       sizeof("uint8_t") * chunk.capacity,
                       sizeof("uint8_t") * capacity),
                     sizeof("int") * chunk.capacity, sizeof("int") * capacity)
              ELSE mm
    IN  IF n = 0 THEN mm ELSE
        [m1 EXCEPT !.heap[fn].chunk.code = @ \o code,
                   !.heap[fn].chunk.lines =
                       @ \o [i \in 1..n |-> mm.parser.previous.line],
                   !.heap[fn].chunk.count = @ + n]

declaration(mm) ==
    IF mm.ub # "" THEN mm ELSE
    LET m1 == CASE check(mm, "TOKEN_FUN") -> funDeclaration(advance(mm))
                [] check(mm, "TOKEN_VAR") -> varDeclaration(advance(mm))
                [] OTHER -> statement(mm)
    IN  (IF m1.ub # "" THEN m1 ELSE IF m1.parser.panicMode THEN synchronize(m1) ELSE m1)

compiler_statement(mm) ==
    IF mm.ub # "" THEN mm ELSE
    CASE check(mm, "TOKEN_PRINT") ->
            Spanned(mm, printStatement(advance(mm)), "printStatement")
      [] check(mm, "TOKEN_IF") ->
            Spanned(mm, ifStatement(advance(mm)), "ifStatement")
      [] check(mm, "TOKEN_WHILE") ->
            Spanned(mm, whileStatement(advance(mm)), "whileStatement")
      [] check(mm, "TOKEN_FOR") ->
            Spanned(mm, forStatement(advance(mm)), "forStatement")
      [] check(mm, "TOKEN_RETURN") -> returnStatement(advance(mm))
      [] check(mm, "TOKEN_LEFT_BRACE") ->
            LET m1 == block(beginScope(advance(mm)))
            IN  IF m1.ub # "" THEN m1 ELSE Spanned(mm, endScope(m1), "block")
      [] check(mm, "ELLIPSIS") -> statements(advance(mm))
      [] OTHER -> Spanned(mm, expressionStatement(mm), "expressionStatement")

\* the while (!match(TOKEN_EOF)) loop of compile
RECURSIVE declarations(_)
declarations(mm) ==
    IF mm.ub # "" THEN mm ELSE
    IF check(mm, "TOKEN_EOF") THEN advance(mm)
    ELSE LET m1 == declaration(mm) IN (IF m1.ub # "" THEN m1 ELSE declarations(m1))

compile(mm, source) == Invoke("compile", <<mm, source>>)

\* compile; m.ret is the function, or NULL
compiler_compile(mm, source) ==
    IF mm.ub # "" THEN mm ELSE
    LET m1 == initCompiler([mm EXCEPT !.scanner = [source |-> source,
                                                   current |-> 1]],
                           "TYPE_SCRIPT")
        m2 == advance([m1 EXCEPT !.parser.hadError = FALSE,
                                 !.parser.panicMode = FALSE,
                                 !.diag = <<>>])
        m3 == declarations(m2)
        m4 == endCompiler(m3)
    IN  (IF m3.ub # "" THEN m3 ELSE [m4 EXCEPT !.ret = IF m4.parser.hadError THEN NULL
                                    ELSE m4.ret])

interpret(mm, source) == Invoke("interpret", <<mm, source>>)

\* interpret up to the call of run(); m.running says that run() was entered
vm_interpret(mm, source) ==
    IF mm.ub # "" THEN mm ELSE
    LET m1 == compile(mm, source)
        fn == m1.ret
        m2 == newClosure(push(Holding(m1, {fn}), OBJ_VAL(fn)), fn)
        closure == m2.ret
        m3 == call(push(pop([m2 EXCEPT !.gc.held = mm.gc.held]),
                        OBJ_VAL(closure)),
                   closure, 0)
    IN  (IF m1.ub # "" THEN m1 ELSE IF fn = NULL
                 THEN [m1 EXCEPT !.result = "INTERPRET_COMPILE_ERROR"]
                 ELSE [m3 EXCEPT !.running = TRUE, !.result = ""])

(***************************************************************************)
(* Instructions given with their operands already read: what the arms of   *)
(* run() do to the machine once READ_BYTE, READ_CONSTANT and READ_STRING   *)
(* have delivered argCount, value and the interned name.                   *)
(***************************************************************************)
\* tableGet(&vm.globals, name, &value) for the name of the characters chars
Global(mm, chars) ==
    tableGet(mm.heap, mm.vm.globals,
             tableFindString(mm.heap, mm.vm.strings, chars,
                             hashString(chars)))


\* one instruction
ExecuteOne(mm, in) ==
    LET frame == mm.vm.frames[mm.vm.frameCount]
    IN  CASE in.op = "OP_CONSTANT" -> push(mm, in.value)
          [] in.op = "OP_POP" -> pop(mm)
          [] in.op = "OP_GET_LOCAL" ->
                push(mm, StackAt(mm, frame.slots + in.slot))
          [] in.op = "OP_GET_GLOBAL" ->
                IF ~Global(mm, in.name).found
                THEN RuntimeErrorReturn(mm, "Undefined variable '%s'.")
                ELSE push(mm, Global(mm, in.name).value)
          [] in.op = "OP_CALL" -> OP_CALL(mm, in.argCount, 0)
          [] in.op = "OP_INHERIT" -> OP_INHERIT(mm)
          [] OTHER ->
                LET m1 == copyString(mm, in.name)
                IN  CASE in.op = "OP_CLASS" -> OP_CLASS(m1, m1.ret)
                      [] in.op = "OP_METHOD" -> defineMethod(m1, m1.ret)
                      [] in.op = "OP_GET_PROPERTY" ->
                            OP_GET_PROPERTY(m1, m1.ret)
                      [] in.op = "OP_SET_PROPERTY" ->
                            OP_SET_PROPERTY(m1, m1.ret)
                      [] in.op = "OP_INVOKE" ->
                            OP_INVOKE(m1, m1.ret, in.argCount, 0)

\* the instructions of code one after the other, until run() returns
Execute(mm, code) == Invoke("Execute", <<mm, code>>)

vm_Execute(mm, code) ==
    IF code = <<>> \/ mm.ub # "" \/ ~mm.running THEN mm
    ELSE Execute(ExecuteOne(mm, Head(code)), Tail(code))

\* what the claim compares of a machine
Outcome(mm) ==
    [frames |-> mm.vm.frames,
     frameCount |-> mm.vm.frameCount,
     stack |-> SubSeq(mm.vm.stack, 1, mm.vm.stackTop),
     running |-> mm.running,
     result |-> mm.result,
     ub |-> mm.ub]

\* OP_CONSTANT n .. OP_CONSTANT 1
Arguments(n) ==
    [i \in 1..n |-> [op |-> "OP_CONSTANT", value |-> NUMBER_VAL(n + 1 - i)]]

\* the receiver on top of the stack of mm, its field and its method of the
\* name, and the outcomes of the two instruction sequences
InvokeAndCall(mm, name, argCount) ==
    Invoke("InvokeAndCall", <<mm, name, argCount>>)

vm_InvokeAndCall(mm, name, argCount) ==
    LET m1 == copyString(mm, name)
        receiver == peek(mm, 0)
        instance == mm.heap[receiver.obj]
    IN  [compared |-> TRUE,
         name |-> name,
         argCount |-> argCount,
         receiver |-> receiver,
         field |-> IF IS_INSTANCE(mm, receiver)
                   THEN tableGet(m1.heap, instance.fields, m1.ret)
                   ELSE [found |-> FALSE, value |-> NIL_VAL],
         method |-> IF IS_INSTANCE(mm, receiver)
                    THEN tableGet(m1.heap, mm.heap[instance.klass].methods,
                                  m1.ret)
                    ELSE [found |-> FALSE, value |-> NIL_VAL],
         invoke |-> Outcome(Execute(mm,
                       Arguments(argCount)
                          \o <<[op |-> "OP_INVOKE", name |-> name,
                                argCount |-> argCount]>>)),
         call |-> Outcome(Execute(mm,
                     <<[op |-> "OP_GET_PROPERTY", name |-> name]>>
                        \o Arguments(argCount)
                        \o <<[op |-> "OP_CALL", argCount |-> argCount]>>))]

\* the instruction run() is about to execute
Instruction(mm) ==
    LET frame == mm.vm.frames[mm.vm.frameCount]
        chunk == mm.heap[mm.heap[frame.closure].function].chunk
    IN  [op |-> chunk.code[frame.ip + 1],
         byte |-> IF frame.ip + 2 <= chunk.count THEN chunk.code[frame.ip + 2]
                  ELSE 0,
         slots |-> frame.slots,
         closure |-> frame.closure,
         constants |-> chunk.constants.values]

InvokeSetup ==
    <<"fun", "f", "(", ")", "{", "}", "fun", "g", "(", "a", ")", "{", "}">>

\* run() up to the end of the script
RECURSIVE RunScript(_)
RunScript(mm) ==
    IF mm.ub # "" \/ ~mm.running \/ Instruction(mm).op = "OP_NIL" THEN mm
    ELSE RunScript(run(mm, 0))

\* a fresh machine that has compiled the line and run it to the end of the
\* script
Started(line) == Invoke("Started", <<line>>)

vm_Started(line) ==
    RunScript(interpret(initVM(ZeroMachine(FALSE), 1024 * 1024), line))

Invoke(fn, a) ==
    CASE fn = "markValues" -> memory_markValues(a[1], a[2], a[3], a[4])
      [] fn = "markRoots" -> memory_markRoots(a[1])
      [] fn = "collectGarbage" -> memory_collectGarbage(a[1])
      [] fn = "reallocate" -> memory_reallocate(a[1], a[2], a[3])
      [] fn = "tableSet" -> table_tableSet(a[1], a[2], a[3], a[4])
      [] fn = "copyString" -> object_copyString(a[1], a[2])
      [] fn = "initVM" -> vm_initVM(a[1], a[2])
      [] fn = "concatenate" -> vm_concatenate(a[1])
      [] fn = "run" -> vm_run(a[1], a[2])
      [] fn = "advance" -> compiler_advance(a[1])
      [] fn = "consume" -> compiler_consume(a[1], a[2], a[3])
      [] fn = "emitByte" -> compiler_emitByte(a[1], a[2])
      [] fn = "initCompiler" -> compiler_initCompiler(a[1], a[2])
      [] fn = "beginScope" -> compiler_beginScope(a[1])
      [] fn = "parseVariable" -> compiler_parseVariable(a[1], a[2])
      [] fn = "ParseFn" -> compiler_ParseFn(a[1], a[2], a[3])
      [] fn = "parsePrecedence" -> compiler_parsePrecedence(a[1], a[2])
      [] fn = "parameters" -> compiler_parameters(a[1])
      [] fn = "function" -> compiler_function(a[1], a[2])
      [] fn = "varDeclaration" -> compiler_varDeclaration(a[1])
      [] fn = "statement" -> compiler_statement(a[1])
      [] fn = "compile" -> compiler_compile(a[1], a[2])
      [] fn = "resolveLocal" -> compiler_resolveLocal(a[1], a[2], a[3])
      [] fn = "interpret" -> vm_interpret(a[1], a[2])
      [] fn = "Started" -> vm_Started(a[1])
      [] fn = "Execute" -> vm_Execute(a[1], a[2])
      [] fn = "InvokeAndCall" -> vm_InvokeAndCall(a[1], a[2], a[3])

(***************************************************************************)
(* The driver: a session feeds lines to interpret() one after the other,   *)
(* as the REPL of main.c does, and run() advances by one instruction per   *)
(* step.                                                                   *)
(***************************************************************************)
\* the objects a dangling pointer held by the machine points to
Dangling(mm) ==
    {o \in Reachable(mm)
           \cup ({mm.vm.strings.entries[i].key :
                     i \in 1..mm.vm.strings.capacity} \ {NULL}) :
        mm.heap[o].freed}

\* the machine between two steps: return value and junk have no meaning
\* any more, and a pointer to released memory is going to be used
Settle(mm) ==
    [mm EXCEPT !.ret = NULL,
               !.junk = FALSE,
               !.gc.held = {},
               !.ub = IF @ = "" /\ Dangling(mm) # {}
                      THEN "use after free" ELSE @]

\* class A { init(n) { this.n = n; } show() { print this.n; } }
\* A(42).show();
ClassProgram ==
    <<"class", "A", "{",
      "init", "(", "n", ")", "{", "this", ".", "n", "=", "n", ";", "}",
      "show", "(", ")", "{", "print", "this", ".", "n", ";", "}", "}",
      "A", "(", "42", ")", ".", "show", "(", ")", ";">>

\* the sessions of the virtual machine specification
VMSessions ==
    << \* recursion without end, one slot per frame
       << <<"fun", "f", "(", ")", "{", "f", "(", ")", ";", "}",
            "f", "(", ")", ";">> >>,
       \* recursion without end, UINT8_COUNT slots per frame
       << <<"fun", "f", "(", "a", ",", "b", ",", "c", ")", "{",
            "f", "(", "a", ",", "b", ",", "c", ")", ";", "}",
            "f", "(", "1", ",", "2", ",", "3", ")", ";">> >>,
       \* a counter: the captured variable outlives its frame
       << <<"fun", "f", "(", ")", "{", "var", "x", "=", "1", ";",
            "fun", "g", "(", ")", "{", "return", "x", "=", "x", "+", "1", ";",
            "}", "return", "g", ";", "}",
            "var", "c", "=", "f", "(", ")", ";",
            "print", "c", "(", ")", ";", "print", "c", "(", ")", ";">> >>,
       \* two captured variables of a block, read and written by the block
       \* and by two closures
       << <<"{", "var", "x", "=", "1", ";", "var", "y", "=", "2", ";",
            "fun", "g", "(", ")", "{", "return", "y", "=", "x", "+", "y", ";",
            "}",
            "x", "=", "5", ";", "print", "g", "(", ")", "+", "y", ";", "}">> >>,
       \* a closure kept in a global, a runtime error in the frame that
       \* declares its variable, and a call of the closure afterwards
       << <<"var", "g", ";", "var", "s", ";",
            "fun", "f", "(", ")", "{", "var", "x", "=", "1", ";",
            "fun", "a", "(", ")", "{", "return", "x", ";", "}",
            "fun", "b", "(", ")", "{", "x", "=", "2", ";", "}",
            "g", "=", "a", ";", "s", "=", "b", ";",
            "nil", "+", "1", ";", "}",
            "f", "(", ")", ";">>,
          <<"s", "(", ")", ";", "print", "5", "+", "g", "(", ")", ";">> >>,
       \* assignment to globals, defined and not
       << <<"var", "a", "=", "1", ";", "b", "=", "2", ";">>,
          <<"print", "b", ";">>,
          <<"a", "=", "3", ";", "print", "a", ";", "b", "=", "a", ";">>,
          <<"var", "b", ";", "print", "b", "=", "a", "+", "2", ";">> >>,
       \* runtime errors below frames and values
       << <<"fun", "f", "(", "a", ")", "{", "return", "1", "+", "(", "-", "a",
            ")", ";", "}", "print", "2", "+", "f", "(", "nil", ")", ";">>,
          <<"print", "1", "<", "\"a\"", ";">>,
          <<"fun", "f", "(", ")", "{", "}", "f", "(", "1", ")", ";">>,
          <<"var", "x", "=", "\"a\"", "+", "1", ";">>,
          <<"nil", "(", ")", ";">>,
          <<"print", "y", ";">> >>,
       \* strings, the native function, control flow
       << <<"var", "s", "=", "\"a\"", "+", "\"b\"", ";", "print", "s", ";",
            "print", "s", "==", "\"a\"", "+", "\"b\"", ";">>,
          <<"print", "clock", "(", ")", "<", "0", "or", "!", "true", ";">>,
          <<"for", "(", "var", "x", "=", "0", ";", "x", "<", "2", ";",
            "x", "=", "x", "+", "1", ")", "print", "x", "*", "2", "-", "1", ";">>,
          <<"var", "x", "=", "3", ";", "while", "(", "x", ">", "1", "and", "true",
            ")", "{", "x", "=", "x", "-", "1", ";", "}",
            "if", "(", "x", "==", "1", ")", "print", "true", ";",
            "else", "print", "false", ";">>,
          <<"fun", "f", "(", "a", ")", "{", "a", "=", "a", "+", "1", ";",
            "return", "a", ";", "}", "print", "0", "+", "f", "(", "1", ")", ";">> >>,
       \* calls of values that are no functions
       << <<"1", "(", ")", ";">>,
          <<"\"a\"", "(", "1", ")", ";">>,
          <<"true", "(", "1", ",", "2", ")", ";">>,
          <<"var", "x", ";", "x", "(", "x", ")", ";">> >>,
       \* a variable read in its own initializer
       << <<"var", "a", "=", "a", ";">>,
          <<"{", "var", "a", "=", "a", ";", "}">>,
          <<"fun", "f", "(", ")", "{", "var", "a", "=", "a", ";", "}">>,
          <<"var", "a", "=", "1", ";">>,
          <<"var", "a", "=", "a", ";">> >>,
       \* values as conditions
       << <<"print", "!", "!", "0", ";", "print", "!", "!", "\"\"", ";",
            "print", "!", "!", "nil", ";", "print", "!", "!", "false", ";",
            "print", "!", "!", "clock", ";", "print", "!", "!", "true", ";">>,
          <<"if", "(", "0", ")", "print", "1", ";",
            "if", "(", "\"\"", ")", "print", "2", ";",
            "if", "(", "nil", ")", "print", "3", ";", "else", "print", "5", ";",
            "if", "(", "false", "or", "clock", ")", "print", "0", ";">> >>,
       \* a function that captures UINT8_COUNT + 1 variables of the
       \* functions around it
       << <<"{", "var", "s", ";", "var", "c", ";",
            "fun", "f", "(", ")", "{", "var", "a", ";", "var", "b", ";",
            "fun", "g", "(", ")", "{", "var", "x", ";",
            "fun", "h", "(", ")", "{", "s", ";", "c", ";", "a", ";", "b", ";",
            "x", ";", "}", "}", "}", "}">> >>,
       \* a class with an initializer and a method
       << ClassProgram >>,
       \* a global and its constant, allocated by the compiler
       << <<"var", "a", "=", "1", ";">>, <<"b", "=", "2", ";">> >>,
       \* two strings of the compiler and one of concatenate
       << <<"\"a\"", "+", "\"b\"", ";">> >>,
       \* jumps over the statements "..." stands for: past a then branch
       << <<"if", "(", "false", ")", "{", "...", "}">> >>,
       \* past an else branch
       << <<"if", "(", "true", ")", "{", "}", "else", "{", "...", "}">> >>,
       \* back over the body of a while loop
       << <<"while", "(", "true", ")", "{",
            "if", "(", "false", ")", "{", "...", "}", "}">> >>,
       \* back over the body of a for loop to its increment, and back over
       \* the increment
       << <<"for", "(", ";", "true", ";", "nil", ")", "{",
            "if", "(", "false", ")", "{", "...", "}", "}">> >>,
       \* statements of every kind, their conditions true and false: for
       \* with and without initializer, condition and increment
       << <<"var", "y", "=", "0", ";",
            "for", "(", "var", "x", "=", "0", ";", "x", "<", "2", ";",
            "x", "=", "x", "+", "1", ")", "print", "x", ";">>,
          <<"for", "(", ";", "y", "<", "1", ";", ")", "y", "=", "y", "+", "1", ";",
            "for", "(", "var", "x", "=", "0", ";", "x", "<", "1", ";", ")",
            "x", "=", "x", "+", "1", ";",
            "for", "(", ";", "y", "<", "2", ";", "y", "=", "y", "+", "1", ")",
            "{", "}">>,
          <<"fun", "f", "(", ")", "{", "for", "(", ";", ";", ")", "{",
            "return", "1", ";", "}", "}",
            "fun", "g", "(", ")", "{", "for", "(", "var", "a", "=", "0", ";",
            ";", "a", "=", "a", "+", "1", ")",
            "if", "(", "a", "==", "1", ")", "return", "a", ";", "}",
            "fun", "h", "(", ")", "{", "for", "(", "var", "a", "=", "0", ";",
            ";", ")", "return", "a", ";", "}",
            "fun", "s", "(", ")", "{", "for", "(", ";", ";",
            "y", "=", "y", "+", "1", ")",
            "if", "(", "y", "==", "3", ")", "return", ";", "}",
            "f", "(", ")", ";", "g", "(", ")", ";", "h", "(", ")", ";",
            "s", "(", ")", ";">>,
          <<"var", "s", "=", "0", ";",
            "while", "(", "s", "<", "2", ")", "s", "=", "s", "+", "1", ";",
            "if", "(", "s", "<", "1", ")", "print", "1", ";",
            "if", "(", "s", "<", "3", ")", "print", "2", ";",
            "if", "(", "s", "<", "1", ")", "print", "3", ";",
            "else", "print", "5", ";",
            "if", "(", "s", "<", "3", ")", "{", "var", "a", "=", "1", ";",
            "print", "a", ";", "}", "else", "{", "}">>,
          <<"print", "true", "and", "1", ";", "print", "false", "and", "1", ";",
            "print", "nil", "or", "2", ";", "print", "1", "or", "2", ";">> >> >>

\* the values clock() / CLOCKS_PER_SEC can yield
Clocks == {0, 1}

\* What the ghost variable `shadow` keeps of the machine before a step: the
\* vm, whether run() was executing, the diagnostics written so far, the
\* opcode about to be executed (or the function entered), its operand
\* byte if it is a slot, an upvalue index or an argument count and, for an
\* instruction whose operand is a constant, that constant; and the heap,
\* its upvalues as they are and every other object by its type.
Before(mm, op) ==
    [vm |-> mm.vm, running |-> mm.running, stderr |-> mm.stderr, op |-> op,
     heap |-> [o \in 1..Len(mm.heap) |->
                 IF mm.heap[o].type = "OBJ_UPVALUE" THEN mm.heap[o]
                 ELSE [type |-> mm.heap[o].type]],
     byte |-> IF op \in {"OP_CALL", "OP_GET_LOCAL", "OP_SET_LOCAL",
                          "OP_GET_UPVALUE", "OP_SET_UPVALUE"}
              THEN Instruction(mm).byte ELSE 0,
     constant |-> IF op \in {"OP_CONSTANT", "OP_GET_GLOBAL", "OP_SET_GLOBAL",
                              "OP_DEFINE_GLOBAL", "OP_CLOSURE"}
                  THEN Instruction(mm).constants[Instruction(mm).byte + 1]
                  ELSE NIL_VAL]

\* The upvalue through which the next instruction reaches a captured
\* variable: the operand of OP_GET_UPVALUE / OP_SET_UPVALUE, and for
\* OP_GET_LOCAL / OP_SET_LOCAL the open upvalue of the slot, if any.
CapturedBy(mm, ops) ==
    LET in == Instruction(mm)
        open == UpvalueList(mm.heap, mm.vm.openUpvalues)
    IN  IF in.op = ops[1] THEN {mm.heap[in.closure].upvalues[in.byte + 1]}
        ELSE IF in.op = ops[2]
        THEN {open[i] : i \in {j \in 1..Len(open) :
                 mm.heap[open[j]].location = in.slots + in.byte}}
        ELSE {}

\* shadow.cell after the instruction that takes mm to m2: for every upvalue
\* object the value last written to the variable it captures.
Written(mm, m2, cell) ==
    LET target == CapturedBy(mm, <<"OP_SET_UPVALUE", "OP_SET_LOCAL">>)
        created == {u \in (Len(mm.heap) + 1)..Len(m2.heap) :
                       m2.heap[u].type = "OBJ_UPVALUE"}
    IN  [u \in DOMAIN cell \cup created \cup target |->
            IF u \in target THEN peek(mm, 0)
            ELSE IF u \in created THEN StackAt(mm, m2.heap[u].location)
            ELSE cell[u]]

\* shadow.read after the instruction that takes mm to m2: the value a read
\* of a captured variable pushed, with the value last written to it.
ReadBack(mm, m2, cell) ==
    LET source == CapturedBy(mm, <<"OP_GET_UPVALUE", "OP_GET_LOCAL">>)
    IN  {[got |-> peek(m2, 0), written |-> cell[u]] : u \in source}

\* the spans of the log whose code starts, or ends, at the instruction the
\* machine is about to execute
SpansAt(mm, side) ==
    LET frame == mm.vm.frames[mm.vm.frameCount]
    IN  {i \in 1..Len(mm.spans) :
            /\ mm.spans[i].function = mm.heap[frame.closure].function
            /\ mm.spans[i][side] = frame.ip}

\* shadow.entered: for every frame and every span the frame has entered,
\* stackTop when it entered the span last
Entering(mm, entered) ==
    IF ~mm.running \/ mm.ub # "" THEN {}
    ELSE {e \in entered : ~(/\ e.frame = mm.vm.frameCount
                            /\ e.span \in SpansAt(mm, "start"))}
         \cup {[frame |-> mm.vm.frameCount, span |-> i,
                height |-> mm.vm.stackTop] : i \in SpansAt(mm, "start")}

\* one line of the session through interpret(), up to the call of run();
\* shadow.compiled is what compile() returned and reported for the line
Interpret(lines) ==
    /\ ~m.running
    /\ m.ub = ""
    /\ sess.line < Len(lines)
    /\ \E junk \in BOOLEAN :
          \E mc \in {compile([m EXCEPT !.junk = junk], lines[sess.line + 1])} :
              /\ m' = Settle(interpret([m EXCEPT !.junk = junk],
                                       lines[sess.line + 1]))
              /\ shadow' = [shadow EXCEPT
                    !.before = Before(m, "interpret"),
                    !.read = {},
                    !.entered = Entering(m', {}),
                    !.compiled = [function |-> mc.ret,
                                  errors |-> Len(mc.stderr) - Len(m.stderr)]]
    /\ sess' = [sess EXCEPT !.line = @ + 1]

\* one instruction of run()
Step ==
    /\ m.running
    /\ m.ub = ""
    /\ \E junk \in BOOLEAN, clock \in Clocks :
          \E m2 \in {run([m EXCEPT !.junk = junk], clock)} :
              /\ m' = Settle(m2)
              /\ shadow' = [shadow EXCEPT
                    !.before = Before(m, Instruction(m).op),
                    !.cell = IF Halted(m2) THEN @ ELSE Written(m, m2, @),
                    !.entered = Entering(m2, @),
                    !.read = IF Halted(m2) THEN {}
                             ELSE ReadBack(m, m2, shadow.cell)]
    /\ UNCHANGED sess

\* the ghost state at the start
InitShadow(mm) ==
    [before |-> Before(mm, "initVM"), cell |-> <<>>, read |-> {},
     entered |-> {},
     compiled |-> [function |-> NULL, errors |-> 0]]

InitVM ==
    /\ m = Settle(initVM(ZeroMachine(FALSE), 1024 * 1024))
    /\ sess \in [session : 1..Len(VMSessions), line : {0}]
    /\ shadow = InitShadow(m)

NextVM == Interpret(VMSessions[sess.session]) \/ Step

SpecVM == InitVM /\ [][NextVM]_vars

(***************************************************************************)
(* Properties of the virtual machine, under SpecVM.                        *)
(***************************************************************************)

\* C1: at every instruction boundary of run() stackTop is inside the stack
\* array (0 <= stackTop <= STACK_MAX), no push has written at or past
\* stack[STACK_MAX] and no pop has moved stackTop below the stack.
C1_StackTopInsideStack ==
    /\ m.vm.stackTop >= 0
    /\ m.vm.stackTop <= STACK_MAX
    /\ m.ub \notin {"write outside vm.stack", "read outside vm.stack"}

\* C4: a read of a captured variable, by OP_GET_UPVALUE of a closure that
\* captures it or by OP_GET_LOCAL of the declaring frame, returns the value
\* last written to the variable through any path, open or closed.
C4_ReadReturnsLastWrite ==
    \A r \in shadow.read : valuesEqual(r.got, r.written)

\* the open upvalues from the head of the list
OpenUpvalues == UpvalueList(m.heap, m.vm.openUpvalues)

\* C5: the open-upvalue list is strictly decreasing by stack slot from head
\* to tail (so no slot has two open upvalues) and every upvalue on it has
\* its location in the operand stack, not at its own closed cell.
C5_OpenUpvaluesSorted ==
    /\ \A i \in 1..Len(OpenUpvalues) :
          /\ m.heap[OpenUpvalues[i]].type = "OBJ_UPVALUE"
          /\ m.heap[OpenUpvalues[i]].location # ClosedCell
          /\ m.heap[OpenUpvalues[i]].location >= 0
          /\ m.heap[OpenUpvalues[i]].location < m.vm.stackTop
    /\ \A i \in 1..(Len(OpenUpvalues) - 1) :
          m.heap[OpenUpvalues[i]].location
              > m.heap[OpenUpvalues[i + 1]].location

\* C5 at work: OP_CLOSURE has just captured a second variable while the
\* first is still open
C5_Witness ==
    /\ Len(OpenUpvalues) >= 2
    /\ m.running
    /\ shadow.before.op = "OP_CLOSURE"

\* C7: when a runtime check fails during run(), interpret returns
\* INTERPRET_RUNTIME_ERROR with all frames unwound and the stack reset,
\* however many frames and values there were.
C7_RuntimeErrorResets ==
    /\ (shadow.before.running /\ Len(m.stderr) > Len(shadow.before.stderr))
          => /\ ~m.running
             /\ m.result = "INTERPRET_RUNTIME_ERROR"
             /\ m.vm.frameCount = 0
             /\ m.vm.stackTop = 0
    /\ m.result = "INTERPRET_RUNTIME_ERROR"
          => m.vm.frameCount = 0 /\ m.vm.stackTop = 0

\* C7 at work: the check failed two frames deep with values on the stack
C7_Witness ==
    /\ shadow.before.running
    /\ shadow.before.vm.frameCount >= 2
    /\ shadow.before.vm.stackTop >= 5
    /\ Len(m.stderr) > Len(shadow.before.stderr)
    /\ m.result = "INTERPRET_RUNTIME_ERROR"

\* the globals before and after the last step, as mappings of the names
GlobalBefore(key) == tableGet(m.heap, shadow.before.vm.globals, key)

GlobalAfter(key) == tableGet(m.heap, m.vm.globals, key)

Names == {o \in 1..Len(m.heap) : m.heap[o].type = "OBJ_STRING"}

\* C9: OP_SET_GLOBAL (like OP_GET_GLOBAL) of an undefined name is a runtime
\* error that leaves every name of the globals as it was, the name itself
\* undefined; OP_SET_GLOBAL of a defined name stores peek(0), leaves it on
\* the stack and changes no other name.
C9_SetGlobal ==
    LET name == shadow.before.constant.obj
        value == peek([vm |-> shadow.before.vm], 0)
    IN  /\ (/\ shadow.before.op \in {"OP_SET_GLOBAL", "OP_GET_GLOBAL"}
            /\ ~GlobalBefore(name).found)
              => /\ ~m.running
                 /\ m.result = "INTERPRET_RUNTIME_ERROR"
                 /\ m.stderr = Append(shadow.before.stderr,
                                      "Undefined variable '%s'.")
                 /\ \A k \in Names : GlobalAfter(k) = GlobalBefore(k)
        /\ (/\ shadow.before.op = "OP_SET_GLOBAL"
            /\ GlobalBefore(name).found)
              => /\ m.running
                 /\ m.stderr = shadow.before.stderr
                 /\ GlobalAfter(name) = [found |-> TRUE, value |-> value]
                 /\ m.vm.stackTop = shadow.before.vm.stackTop
                 /\ peek(m, 0) = value
                 /\ \A k \in Names \ {name} : GlobalAfter(k) = GlobalBefore(k)

\* C9 at work: a name that an earlier line failed to assign is assigned
\* again and fails again, after another global was assigned and printed
C9_Witness ==
    /\ shadow.before.op = "OP_SET_GLOBAL"
    /\ ~GlobalBefore(shadow.before.constant.obj).found
    /\ Len(m.stderr) >= 3
    /\ m.stdout = <<3>>
    /\ \E k \in Names : GlobalAfter(k) = [found |-> TRUE,
                                          value |-> NUMBER_VAL(3)]

\* C10: frameCount never exceeds FRAMES_MAX, a call with FRAMES_MAX frames
\* reports "Stack overflow." and pushes no frame, and so a recursion that
\* fills the frame array ends in that runtime error, not in a write outside
\* an array.
C10_RecursionEndsInRuntimeError ==
    /\ m.vm.frameCount <= FRAMES_MAX
    /\ (/\ shadow.before.running
        /\ shadow.before.op = "OP_CALL"
        /\ shadow.before.vm.frameCount = FRAMES_MAX
        /\ m.ub = "")
          => /\ m.result = "INTERPRET_RUNTIME_ERROR"
             /\ m.stderr = Append(shadow.before.stderr, "Stack overflow.")
             /\ m.vm.frameCount = 0
    /\ m.vm.frameCount = FRAMES_MAX => m.ub = ""

\* the value OP_CALL was about to call in the last step
Callee ==
    StackAt([vm |-> shadow.before.vm],
            shadow.before.vm.stackTop - 1 - shadow.before.byte)

\* the object kinds callValue calls
Callable(value) ==
    /\ IS_OBJ(value)
    /\ m.heap[value.obj].type \in {"OBJ_CLOSURE", "OBJ_NATIVE", "OBJ_CLASS",
                                   "OBJ_BOUND_METHOD"}

\* C11: OP_CALL of a value that is not a closure, a native function, a
\* class or a bound method, with any number of arguments, reports "Can only
\* call functions and classes.", writes no call frame and ends interpret
\* with INTERPRET_RUNTIME_ERROR.
C11_CallOfNonCallable ==
    (/\ shadow.before.running
     /\ shadow.before.op = "OP_CALL"
     /\ ~Callable(Callee))
       => /\ m.stderr = Append(shadow.before.stderr,
                               "Can only call functions and classes.")
          /\ m.vm.frames = <<>>
          /\ m.vm.frameCount = 0
          /\ ~m.running
          /\ m.result = "INTERPRET_RUNTIME_ERROR"

\* C11 at work: a boolean was called with two arguments
C11_Witness ==
    /\ shadow.before.running
    /\ shadow.before.op = "OP_CALL"
    /\ shadow.before.byte = 2
    /\ IS_BOOL(Callee)
    /\ m.result = "INTERPRET_RUNTIME_ERROR"

\* the last step executed an instruction of run() to its end
Executed ==
    /\ shadow.before.running
    /\ m.ub = ""

\* the frame that executed the last instruction
ExecutingFrame == shadow.before.vm.frames[shadow.before.vm.frameCount]

\* the stack slots whose content the last instruction changed
StoredSlots ==
    {i \in 0..(Len(m.vm.stack) - 1) :
        \/ i >= Len(shadow.before.vm.stack)
        \/ m.vm.stack[i + 1] # shadow.before.vm.stack[i + 1]}

\* the slot the upvalue of the last OP_SET_UPVALUE points to while open
UpvalueSlot ==
    LET upvalue == m.heap[ExecutingFrame.closure].upvalues[shadow.before.byte + 1]
    IN  IF shadow.before.op = "OP_SET_UPVALUE"
        THEN {m.heap[upvalue].location} \ {ClosedCell}
        ELSE {}

\* C12: no instruction executed by a call frame, OP_SET_LOCAL and
\* OP_SET_UPVALUE through an open upvalue included, stores to a stack slot
\* below the slots of that frame.
C12_FrameWritesInsideWindow ==
    Executed => \A i \in StoredSlots : i >= ExecutingFrame.slots

\* C12 as the program has it: a frame stores below its slots only by
\* OP_SET_UPVALUE through an open upvalue, and then only to the slot of the
\* enclosing frame that the upvalue captures.
C12_FrameWritesWindowOrCaptured ==
    Executed => \A i \in StoredSlots :
                   i >= ExecutingFrame.slots \/ i \in UpvalueSlot

\* C12 at work: OP_SET_UPVALUE stored through an open upvalue to a slot of
\* an enclosing frame
C12_Witness ==
    /\ Executed
    /\ shadow.before.op = "OP_SET_UPVALUE"
    /\ \E i \in StoredSlots : i < ExecutingFrame.slots /\ i \in UpvalueSlot

\* the line interpret() was last called with
Interpreted ==
    IF sess.line = 0 THEN <<>> ELSE VMSessions[sess.session][sess.line]

\* interpret() has returned
Returned == sess.line >= 1 /\ ~m.running /\ m.ub = ""

\* `var a = a;` at top level, and inside a block or a function body
SelfInitializer == <<"var", "a", "=", "a", ";">>

NestedSelfInitializer ==
    {<<"{">> \o SelfInitializer \o <<"}">>,
     <<"fun", "f", "(", ")", "{">> \o SelfInitializer \o <<"}">>}

\* the global variable a is defined
GlobalADefined ==
    \E key \in Names : /\ m.heap[key].chars = <<97>>
                        /\ GlobalAfter(key).found

\* C13: interpreting `var a = a;` yields INTERPRET_COMPILE_ERROR, at top
\* level as well as inside a block or a function body.
C13_SelfInitializerRejected ==
    (Returned /\ Interpreted \in NestedSelfInitializer \cup {SelfInitializer})
        => m.result = "INTERPRET_COMPILE_ERROR"

\* C13 as the program has it: inside a block or a function body the
\* declaration is a compile error; at top level it compiles, and run()
\* reports the global as undefined unless it was defined before.
C13_LocalSelfInitializerRejected ==
    /\ (Returned /\ Interpreted \in NestedSelfInitializer)
          => /\ m.result = "INTERPRET_COMPILE_ERROR"
             /\ shadow.compiled.function = NULL
             /\ m.stderr[Len(m.stderr)] =
                    "Can't read local variable in its own initializer."
    /\ (Returned /\ Interpreted = SelfInitializer)
          => /\ shadow.compiled.function # NULL
             /\ shadow.compiled.errors = 0
             /\ GlobalADefined => m.result = "INTERPRET_OK"
             /\ ~GlobalADefined
                   => /\ m.result = "INTERPRET_RUNTIME_ERROR"
                      /\ m.stderr[Len(m.stderr)] = "Undefined variable '%s'."

\* C13 at work: the declaration was rejected inside a function body after
\* it had compiled and failed in run() at top level
C13_Witness ==
    /\ Returned
    /\ Interpreted = <<"fun", "f", "(", ")", "{">> \o SelfInitializer \o <<"}">>
    /\ m.result = "INTERPRET_COMPILE_ERROR"
    /\ Len(m.stderr) = 3
    /\ m.stderr[1] = "Undefined variable '%s'."

\* nil and false
NilOrFalse(value) ==
    \/ value.type = "VAL_NIL"
    \/ value = [type |-> "VAL_BOOL", boolean |-> FALSE]

\* the top of the stack before the last step
TopBefore ==
    StackAt([vm |-> shadow.before.vm], shadow.before.vm.stackTop - 1)

\* the code of the function the frame executes
CodeOf(frame) == m.heap[m.heap[frame.closure].function].chunk.code

\* run() is about to execute OP_NOT twice
AtNotNot ==
    /\ m.running
    /\ Instruction(m).op = "OP_NOT"
    /\ Instruction(m).byte = "OP_NOT"

\* C17: only nil and false are falsey.  OP_NOT yields true for nil and
\* false and false for every other value, the number 0 and the empty string
\* included; OP_NOT applied twice yields false for nil and false and true
\* for every other value; OP_JUMP_IF_FALSE adds its offset to ip exactly
\* for nil and false, and leaves the value on the stack.
C17_OnlyNilAndFalseFalsey ==
    /\ (Executed /\ shadow.before.op = "OP_NOT")
          => peek(m, 0) = BOOL_VAL(NilOrFalse(TopBefore))
    /\ AtNotNot
          => peek(run(run(m, 0), 0), 0) = BOOL_VAL(~NilOrFalse(peek(m, 0)))
    /\ (Executed /\ shadow.before.op = "OP_JUMP_IF_FALSE")
          => LET frame == m.vm.frames[m.vm.frameCount]
                 ip == ExecutingFrame.ip
                 offset == (CodeOf(frame)[ip + 2] * 256) + CodeOf(frame)[ip + 3]
             IN  /\ frame.ip = ip + 3 + (IF NilOrFalse(TopBefore) THEN offset
                                         ELSE 0)
                 /\ peek(m, 0) = TopBefore
                 /\ m.vm.stackTop = shadow.before.vm.stackTop

\* C17 at work: the empty string is about to be negated twice, after the
\* number 0 was
C17_Witness ==
    /\ AtNotNot
    /\ IS_STRING(m, peek(m, 0))
    /\ m.heap[peek(m, 0).obj].chars = <<>>
    /\ m.stdout = <<"true">>

\* C19: no function has more than UINT8_COUNT upvalues and addUpvalue
\* never writes an entry past the end of compiler->upvalues: a function
\* that needs one more captured variable is rejected with a compile error.
C19_UpvaluesBounded ==
    /\ m.ub # "write outside compiler->upvalues"
    /\ \A o \in 1..Len(m.heap) :
          m.heap[o].type = "OBJ_FUNCTION"
              => m.heap[o].upvalueCount <= UINT8_COUNT

\* a byte of a chunk that is an operand, not an opcode
IsOperand(byte) == ToString(byte) \in {ToString(i) : i \in 0..255}

\* the open upvalues before the last step, from the head of the list
OpenBefore == UpvalueList(shadow.before.heap, shadow.before.vm.openUpvalues)

\* those of them that point to a slot at or above from
OpenFrom(from) ==
    {u \in {OpenBefore[i] : i \in 1..Len(OpenBefore)} :
        shadow.before.heap[u].location >= from}

\* C22: OP_RETURN in a frame that is not the outermost takes the result
\* from the top of the stack, closes every open upvalue at or above the
\* slots of the frame, removes exactly that frame, and leaves the result on
\* top of a stack cut back to the slots of the frame, with the caller's
\* frames and the stack below untouched; in the outermost frame it ends
\* run() with INTERPRET_OK.
C22_ReturnUnwindsOneFrame ==
    (Executed /\ shadow.before.op = "OP_RETURN") =>
        /\ m.vm.frameCount = shadow.before.vm.frameCount - 1
        /\ m.vm.frames = SubSeq(shadow.before.vm.frames, 1,
                                shadow.before.vm.frameCount - 1)
        /\ \A u \in OpenFrom(ExecutingFrame.slots) :
              /\ m.heap[u].location = ClosedCell
              /\ m.heap[u].closed = StackAt([vm |-> shadow.before.vm],
                                            shadow.before.heap[u].location)
        /\ \A i \in 1..Len(OpenUpvalues) :
              m.heap[OpenUpvalues[i]].location < ExecutingFrame.slots
        /\ shadow.before.vm.frameCount > 1 =>
              /\ m.running
              /\ m.vm.stackTop = ExecutingFrame.slots + 1
              /\ StackAt(m, ExecutingFrame.slots) = TopBefore
              /\ \A i \in 0..(ExecutingFrame.slots - 1) :
                    StackAt(m, i) = StackAt([vm |-> shadow.before.vm], i)
        /\ shadow.before.vm.frameCount = 1 =>
              /\ ~m.running
              /\ m.result = "INTERPRET_OK"
              /\ m.stderr = shadow.before.stderr

\* C22 at work: a function returned to its caller and the variable its
\* closure captured was closed
C22_Witness ==
    /\ Executed
    /\ shadow.before.op = "OP_RETURN"
    /\ shadow.before.vm.frameCount > 1
    /\ OpenFrom(ExecutingFrame.slots) # {}
    /\ m.running

\* the slot closeUpvalues was called with in the last step
ClosedFrom ==
    IF shadow.before.op = "OP_RETURN" THEN ExecutingFrame.slots
    ELSE shadow.before.vm.stackTop - 1

\* the upvalue objects there were before the last step
UpvaluesBefore ==
    {o \in 1..Len(shadow.before.heap) :
        shadow.before.heap[o].type = "OBJ_UPVALUE"}

\* C24: closeUpvalues(from), as OP_CLOSE_UPVALUE and OP_RETURN call it,
\* closes exactly the open upvalues whose location is at or above from:
\* each of them gets the value of its stack slot in its closed field, its
\* location retargeted to that field, and leaves the open list; every
\* other upvalue, open below from or closed before, is unchanged and the
\* open list keeps the rest in its order.
C24_CloseUpvaluesExact ==
    (Executed /\ shadow.before.op \in {"OP_CLOSE_UPVALUE", "OP_RETURN"}) =>
        /\ \A u \in UpvaluesBefore :
              m.heap[u] =
                 IF u \in OpenFrom(ClosedFrom)
                 THEN [shadow.before.heap[u] EXCEPT
                          !.closed = StackAt([vm |-> shadow.before.vm],
                                             shadow.before.heap[u].location),
                          !.location = ClosedCell]
                 ELSE shadow.before.heap[u]
        /\ OpenUpvalues =
              SubSeq(OpenBefore, Cardinality(OpenFrom(ClosedFrom)) + 1,
                     Len(OpenBefore))
        /\ \A i \in 1..Len(OpenUpvalues) : OpenUpvalues[i] \notin OpenFrom(ClosedFrom)

\* C24 at work: OP_CLOSE_UPVALUE closed the upvalue of the top slot and
\* left the upvalue of the slot below it open
C24_Witness ==
    /\ Executed
    /\ shadow.before.op = "OP_CLOSE_UPVALUE"
    /\ Cardinality(OpenFrom(ClosedFrom)) = 1
    /\ Len(OpenUpvalues) = 1
    /\ m.heap[OpenUpvalues[1]].location = ClosedFrom - 1

\* the last step was OP_CALL of a closure
CalledClosure ==
    /\ Executed
    /\ shadow.before.op = "OP_CALL"
    /\ IS_OBJ(Callee)
    /\ m.heap[Callee.obj].type = "OBJ_CLOSURE"

\* the number of parameters of the closure OP_CALL called
CalleeArity == m.heap[m.heap[Callee.obj].function].arity

\* C23: a call of a closure with an argument count other than the arity
\* of its function pushes no frame and ends in the runtime error "Expected
\* %d arguments but got %d."; with the arity and fewer than FRAMES_MAX
\* frames it pushes exactly one frame, for that closure, with ip at the
\* start of the code and slots at stackTop - argCount - 1, above the
\* frames that were there, and leaves the stack as it was.
C23_CallChecksArity ==
    CalledClosure =>
        /\ shadow.before.byte # CalleeArity =>
              /\ m.stderr = Append(shadow.before.stderr,
                                   "Expected %d arguments but got %d.")
              /\ m.result = "INTERPRET_RUNTIME_ERROR"
              /\ ~m.running
              /\ m.vm.frameCount = 0
              /\ m.vm.frames = <<>>
        /\ (/\ shadow.before.byte = CalleeArity
            /\ shadow.before.vm.frameCount < FRAMES_MAX) =>
              /\ m.running
              /\ m.stderr = shadow.before.stderr
              /\ m.vm.frameCount = shadow.before.vm.frameCount + 1
              /\ Len(m.vm.frames) = m.vm.frameCount
              /\ m.vm.frames[m.vm.frameCount] =
                    [closure |-> Callee.obj, ip |-> 0,
                     slots |-> shadow.before.vm.stackTop
                                  - shadow.before.byte - 1]
              /\ \A i \in 1..(shadow.before.vm.frameCount - 1) :
                    m.vm.frames[i] = shadow.before.vm.frames[i]
              /\ m.vm.frames[shadow.before.vm.frameCount] =
                    [ExecutingFrame EXCEPT !.ip = @ + 2]
              /\ m.vm.stack = shadow.before.vm.stack
              /\ m.vm.stackTop = shadow.before.vm.stackTop

\* C23 at work: a function of three parameters was entered from a frame of
\* its own
C23_Witness ==
    /\ CalledClosure
    /\ shadow.before.byte = 3
    /\ CalleeArity = 3
    /\ m.vm.frameCount = 3

\* the functions of the heap
Functions == {o \in 1..Len(m.heap) : m.heap[o].type = "OBJ_FUNCTION"}

\* the offsets of the OP_CLOSURE instructions of a function
ClosuresOf(fn) ==
    LET chunk == m.heap[fn].chunk
    IN  {p \in 1..chunk.count :
            ~IsOperand(chunk.code[p]) /\ chunk.code[p] = "OP_CLOSURE"}

\* the upvalueCount of the function that the OP_CLOSURE at offset p names
ClosureUpvalueCount(fn, p) ==
    LET chunk == m.heap[fn].chunk
    IN  m.heap[chunk.constants.values[chunk.code[p + 1] + 1].obj].upvalueCount

\* C20: after the constant index of every OP_CLOSURE follow exactly
\* 2 * upvalueCount operand bytes of the function it names, an isLocal byte
\* and an index byte per upvalue, and then the next opcode; executing
\* OP_CLOSURE moves ip past exactly those bytes.
C20_ClosureOperands ==
    m.ub = "" =>
      /\ \A f \in Functions : \A p \in ClosuresOf(f) :
            LET code == m.heap[f].chunk.code
                n == ClosureUpvalueCount(f, p)
            IN  /\ p + 2 + (2 * n) <= m.heap[f].chunk.count
                /\ \A j \in 1..(2 * n) : IsOperand(code[p + 1 + j])
                /\ \A j \in 1..n : code[p + (2 * j)] \in {0, 1}
                /\ ~IsOperand(code[p + 2 + (2 * n)])
      /\ (Executed /\ shadow.before.op = "OP_CLOSURE")
            => LET frame == m.vm.frames[m.vm.frameCount]
                   n == m.heap[shadow.before.constant.obj].upvalueCount
               IN  /\ frame.ip = ExecutingFrame.ip + 2 + (2 * n)
                   /\ ~IsOperand(CodeOf(frame)[frame.ip + 1])
                   /\ m.heap[peek(m, 0).obj].upvalueCount = n

\* C20 at work: OP_CLOSURE made a closure with two upvalues and moved ip
\* over four operand bytes
C20_Witness ==
    /\ Executed
    /\ shadow.before.op = "OP_CLOSURE"
    /\ m.heap[shadow.before.constant.obj].upvalueCount = 2
    /\ m.vm.frames[m.vm.frameCount].ip = ExecutingFrame.ip + 6

\* the stack slots the last OP_CLOSURE captured, by operand pair: the
\* slot of the executing frame for a pair with isLocal set, else -1
CapturedSlots ==
    [j \in 1..m.heap[shadow.before.constant.obj].upvalueCount |->
        IF CodeOf(ExecutingFrame)[ExecutingFrame.ip + 1 + (2 * j)] # 0
        THEN ExecutingFrame.slots
                + CodeOf(ExecutingFrame)[ExecutingFrame.ip + 2 + (2 * j)]
        ELSE -1]

\* the slots that had an open upvalue before the last step
SlotsOpenBefore ==
    {shadow.before.heap[OpenBefore[i]].location : i \in 1..Len(OpenBefore)}

\* the object was allocated before the last step
WasThere(o) == o <= Len(shadow.before.heap)

\* the upvalues the last step allocated
CreatedUpvalues ==
    {o \in 1..Len(m.heap) : ~WasThere(o) /\ m.heap[o].type = "OBJ_UPVALUE"}

\* C25: captureUpvalue, as OP_CLOSURE calls it for every local variable
\* the new closure captures, yields the open upvalue the slot already has
\* and otherwise allocates exactly one upvalue for the slot and links it
\* into the open list, where the upvalues that were open keep their order,
\* their slots and their closed fields.
C25_CaptureReusesOrCreatesOne ==
    (Executed /\ shadow.before.op = "OP_CLOSURE") =>
        /\ \A j \in DOMAIN CapturedSlots :
              CapturedSlots[j] # -1 =>
                 LET u == m.heap[peek(m, 0).obj].upvalues[j]
                 IN  /\ m.heap[u].type = "OBJ_UPVALUE"
                     /\ m.heap[u].location = CapturedSlots[j]
                     /\ \E i \in 1..Len(OpenUpvalues) : OpenUpvalues[i] = u
                     /\ WasThere(u) <=> CapturedSlots[j] \in SlotsOpenBefore
                     /\ WasThere(u) =>
                           shadow.before.heap[u].location = CapturedSlots[j]
        /\ Cardinality(CreatedUpvalues) =
              Cardinality(({CapturedSlots[j] : j \in DOMAIN CapturedSlots}
                             \ {-1}) \ SlotsOpenBefore)
        /\ Len(OpenUpvalues) = Len(OpenBefore) + Cardinality(CreatedUpvalues)
        /\ SelectSeq(OpenUpvalues, WasThere) = OpenBefore
        /\ \A i \in 1..Len(OpenBefore) :
              /\ m.heap[OpenBefore[i]].location =
                    shadow.before.heap[OpenBefore[i]].location
              /\ m.heap[OpenBefore[i]].closed =
                    shadow.before.heap[OpenBefore[i]].closed

\* C25 at work: a second closure captured a variable that had an open
\* upvalue
C25_Witness ==
    /\ Executed
    /\ shadow.before.op = "OP_CLOSURE"
    /\ \E j \in DOMAIN CapturedSlots : CapturedSlots[j] \in SlotsOpenBefore
    /\ CreatedUpvalues = {}

\* C18: a well-formed class declaration compiles without error, so that
\* `class A { init(n) { this.n = n; } show() { print this.n; } }
\* A(42).show();` is interpreted with outcome INTERPRET_OK and prints 42.
C18_ClassProgramRuns ==
    (sess.line >= 1 /\ Interpreted = ClassProgram)
        => /\ shadow.compiled.function # NULL
           /\ shadow.compiled.errors = 0
           /\ m.result # "INTERPRET_COMPILE_ERROR"
           /\ (~m.running /\ m.ub = "")
                 => m.result = "INTERPRET_OK" /\ m.stdout = <<42>>

(***************************************************************************)
(* The hash table on its own: tableSet and tableDelete on the globals of   *)
(* a fresh machine, with interned strings as keys.  shadow.map is the      *)
(* finite map the calls describe.                                          *)
(***************************************************************************)
MaxTableKeys == 5

\* The keys are one-character strings; those whose characters differ by 8
\* or 16 have hashes that agree modulo 8 or 16 and so collide in the table.
TableKeyChars == <<97, 113, 105, 98, 114, 106, 99, 115>>

\* the key objects, interned after initVM
RECURSIVE internKeys(_, _)
internKeys(mm, n) ==
    IF n = 0 THEN mm
    ELSE copyString(internKeys(mm, n - 1), <<TableKeyChars[n]>>)

TableKeys ==
    {o \in 1..Len(m.heap) :
        m.heap[o].type = "OBJ_STRING" /\ Len(m.heap[o].chars) = 1}

TableValues == {NUMBER_VAL(1), NUMBER_VAL(2)}

\* the slots of a table that hold a key, and its tombstones
LiveSlots(t) == {i \in 1..t.capacity : t.entries[i].key # NULL}

Tombstones(t) ==
    {i \in 1..t.capacity :
        t.entries[i].key = NULL /\ ~IS_NIL(t.entries[i].value)}

\* what the slot that tableSet stored the key in held before: the key, a
\* tombstone, or nothing (as every slot without a key does after a resize)
SlotWas(t, t2, key) ==
    IF \E i \in LiveSlots(t) : t.entries[i].key = key THEN "key"
    ELSE IF t2.capacity # t.capacity THEN "empty"
    ELSE IF \E i \in Tombstones(t) : t2.entries[i].key = key THEN "tombstone"
    ELSE "empty"

\* shadow.reused says that the call stored a key that was absent without
\* taking an empty slot; shadow.delta is the change of count, shadow.was
\* what the slot held, shadow.resized whether the table grew and
\* shadow.dropped the number of tombstones it had before it grew
TableSet(key, value) ==
    /\ m' = Settle(tableSet(m, TableRef(NULL, "globals"), key, value))
    /\ shadow' = [map |-> [shadow.map EXCEPT ![key] = <<value>>],
                  reused |-> /\ shadow.map[key] = <<>>
                             /\ m'.vm.globals.count = m.vm.globals.count,
                  op |-> "tableSet",
                  delta |-> m'.vm.globals.count - m.vm.globals.count,
                  was |-> SlotWas(m.vm.globals, m'.vm.globals, key),
                  resized |-> m'.vm.globals.capacity # m.vm.globals.capacity,
                  dropped |-> IF m'.vm.globals.capacity # m.vm.globals.capacity
                              THEN Cardinality(Tombstones(m.vm.globals))
                              ELSE 0]
    /\ UNCHANGED sess

TableDelete(key) ==
    /\ m' = Settle([m EXCEPT !.vm.globals =
                       tableDelete(m.heap, @, key).table])
    /\ shadow' = [map |-> [shadow.map EXCEPT ![key] = <<>>],
                  reused |-> FALSE,
                  op |-> "tableDelete",
                  delta |-> m'.vm.globals.count - m.vm.globals.count,
                  was |-> IF shadow.map[key] = <<>> THEN "empty" ELSE "key",
                  resized |-> FALSE,
                  dropped |-> 0]
    /\ UNCHANGED sess

InitTable ==
    /\ m = Settle(internKeys(initVM(ZeroMachine(FALSE), 1024 * 1024),
                             MaxTableKeys))
    /\ sess = [session |-> 0, line |-> 0]
    /\ shadow = [map |-> [k \in TableKeys |-> <<>>], reused |-> FALSE,
                 op |-> "initVM", delta |-> 0, was |-> "empty",
                 resized |-> FALSE, dropped |-> 0]

NextTable ==
    \/ \E key \in TableKeys, value \in TableValues : TableSet(key, value)
    \/ \E key \in TableKeys : TableDelete(key)

SpecTable == InitTable /\ [][NextTable]_vars

\* C6: tableGet(k) succeeds with v exactly when the most recent call on k
\* was tableSet(k, v), and fails when k was never set or was deleted last,
\* whatever was done to other keys, tombstones and resizes included.
C6_TableIsFiniteMap ==
    \A k \in TableKeys :
        tableGet(m.heap, m.vm.globals, k) =
            IF shadow.map[k] = <<>> THEN [found |-> FALSE, value |-> NIL_VAL]
            ELSE [found |-> TRUE, value |-> shadow.map[k][1]]

\* C6 at work: the table has grown, holds a tombstone, and the last call
\* stored an absent key in a slot that was not empty
C6_Witness ==
    /\ m.vm.globals.capacity = 16
    /\ \E i \in 1..16 : m.vm.globals.entries[i] = Entry(NULL, BOOL_VAL(TRUE))
    /\ shadow.reused
    /\ \E k \in TableKeys : shadow.map[k] = <<>>
    /\ Cardinality({k \in TableKeys : shadow.map[k] # <<>>}) >= 2

\* C29: the count of a table is the number of its slots that hold a key
\* plus the number of its tombstones.  tableDelete leaves count as it is;
\* tableSet adds one exactly when the slot it fills held neither a key nor
\* a tombstone; and a tableSet that grows the table leaves no tombstone
\* but the count of the keys.
C29_CountIsKeysPlusTombstones ==
    /\ \A t \in {m.vm.globals, m.vm.strings} :
          t.count = Cardinality(LiveSlots(t)) + Cardinality(Tombstones(t))
    /\ shadow.op = "tableDelete" => shadow.delta = 0
    /\ shadow.op = "tableSet" =>
          shadow.delta = (IF shadow.was = "empty" THEN 1 ELSE 0) - shadow.dropped
    /\ shadow.resized =>
          /\ Tombstones(m.vm.globals) = {}
          /\ m.vm.globals.count = Cardinality(LiveSlots(m.vm.globals))

\* C29 at work: tableSet of an absent key grew a table that had a
\* tombstone, and count fell
C29_Witness ==
    /\ shadow.op = "tableSet"
    /\ shadow.resized
    /\ shadow.dropped >= 1
    /\ shadow.was = "empty"
    /\ shadow.delta <= 0

(***************************************************************************)
(* Compilation: after a first line that defines a global, interpret() is   *)
(* given a line of up to MaxTokens words.                                  *)
(***************************************************************************)
MaxTokens == 4

CompileWords == {"var", "a", "=", "1", ";", "print", "+", "@"}

Sources == UNION {[1..n -> CompileWords] : n \in 0..MaxTokens}

InitCompile ==
    /\ m = Settle(initVM(ZeroMachine(FALSE), 1024 * 1024))
    /\ sess \in [lines : {<< <<"var", "a", "=", "1", ";">>, src >> :
                             src \in Sources},
                 line : {0}]
    /\ shadow = InitShadow(m)

NextCompile == Interpret(sess.lines) \/ Step

SpecCompile == InitCompile /\ [][NextCompile]_vars

\* C8: compile() returns NULL exactly when it reported at least one error,
\* and then interpret returns INTERPRET_COMPILE_ERROR without entering
\* run() and with the stack, the frames and the globals as they were.
C8_CompileErrorIffNull ==
    shadow.before.op = "interpret" =>
        /\ (shadow.compiled.function = NULL) <=> (shadow.compiled.errors >= 1)
        /\ shadow.compiled.function = NULL =>
              /\ m.result = "INTERPRET_COMPILE_ERROR"
              /\ ~m.running
              /\ m.vm.stack = shadow.before.vm.stack
              /\ m.vm.stackTop = shadow.before.vm.stackTop
              /\ m.vm.frames = shadow.before.vm.frames
              /\ m.vm.frameCount = shadow.before.vm.frameCount
              /\ m.vm.globals = shadow.before.vm.globals
        /\ shadow.compiled.function # NULL => m.running

\* C8 at work: a line with two reported errors, after a line that ran and
\* defined a global
C8_Witness ==
    /\ shadow.before.op = "interpret"
    /\ shadow.compiled.function = NULL
    /\ shadow.compiled.errors >= 2
    /\ m.vm.globals.count >= 2
    /\ m.result = "INTERPRET_COMPILE_ERROR"

\* panic mode after the first n entries of the log of a compilation
PanicAfter(log, n) == n >= 1 /\ log[n].routine = "errorAt"

\* hadError after the first n entries of the log of a compilation
ErrorBefore(log, n) == \E j \in 1..n : log[j].routine = "errorAt"

\* the diagnostics compile() wrote, by the log
Reported(log) == {i \in 1..Len(log) : log[i].reported}

\* C21: within a compilation an errorAt writes a diagnostic exactly when no
\* errorAt has run since the last synchronize (or since compile began), so
\* that at most one diagnostic is written per episode of panic mode;
\* panicMode is set by errorAt and cleared by synchronize only; hadError is
\* set from the first errorAt until compile returns.
C21_OneDiagnosticPerPanic ==
    /\ \A i \in 1..Len(m.diag) :
          /\ m.diag[i].panicMode = PanicAfter(m.diag, i - 1)
          /\ m.diag[i].hadError = ErrorBefore(m.diag, i - 1)
          /\ m.diag[i].reported =
                (m.diag[i].routine = "errorAt" /\ ~PanicAfter(m.diag, i - 1))
    /\ m.parser.panicMode = PanicAfter(m.diag, Len(m.diag))
    /\ m.parser.hadError = ErrorBefore(m.diag, Len(m.diag))
    /\ shadow.before.op = "interpret"
          => shadow.compiled.errors = Cardinality(Reported(m.diag))

\* C21 at work: a diagnostic, a suppressed error, synchronize and a second
\* diagnostic in one compilation
C21_Witness ==
    /\ shadow.before.op = "interpret"
    /\ shadow.compiled.errors = 2
    /\ \E i, j, k, l \in 1..Len(m.diag) :
          /\ i < j /\ j < k /\ k < l
          /\ m.diag[i].reported
          /\ m.diag[j].routine = "errorAt" /\ ~m.diag[j].reported
          /\ m.diag[k].routine = "synchronize"
          /\ m.diag[l].reported

(***************************************************************************)
(* The collector and the intern table: strings are made, kept on the       *)
(* stack and dropped, as defineNative, concatenate and OP_POP do, on a     *)
(* machine whose first collection is due after InitialNextGC bytes.        *)
(***************************************************************************)
InitialNextGC == 545

MaxGCStack == 3

MaxChars == 2

\* the strings `object` could be taken for: allocated, with these bytes
SameBytes(mm, chars) ==
    {o \in 1..Len(mm.heap) :
        /\ mm.heap[o].type = "OBJ_STRING"
        /\ ~mm.heap[o].freed
        /\ mm.heap[o].chars = chars}

\* shadow.same says that a string made of bytes that an allocated string
\* has was that string
Interned(m2, chars) ==
    [shadow EXCEPT !.same = @ /\ (m2.ub # "" \/ SameBytes(m, chars) = {}
                                  \/ m2.ret \in SameBytes(m, chars))]

\* push(OBJ_VAL(copyString(chars))), as in defineNative
CopyString(chars) ==
    /\ m.ub = ""
    /\ m.vm.stackTop < MaxGCStack
    /\ \E junk \in BOOLEAN :
          \E m2 \in {copyString([m EXCEPT !.junk = junk], chars)} :
              /\ m' = Settle(push(m2, OBJ_VAL(m2.ret)))
              /\ shadow' = Interned(m2, chars)
    /\ UNCHANGED sess

\* OP_ADD on two strings: concatenate, which makes its result by takeString
Concatenate ==
    /\ m.ub = ""
    /\ m.vm.stackTop >= 2
    /\ Len(m.heap[peek(m, 0).obj].chars) + Len(m.heap[peek(m, 1).obj].chars)
          <= MaxChars
    /\ \E junk \in BOOLEAN :
          \E m2 \in {concatenate([m EXCEPT !.junk = junk])} :
              /\ m' = Settle(m2)
              /\ shadow' = Interned([m2 EXCEPT !.ret = peek(m2, 0).obj],
                                    m.heap[peek(m, 1).obj].chars
                                        \o m.heap[peek(m, 0).obj].chars)
    /\ UNCHANGED sess

\* OP_POP
Pop ==
    /\ m.ub = ""
    /\ m.vm.stackTop > 0
    /\ m' = Settle(pop(m))
    /\ UNCHANGED <<sess, shadow>>

InitGC ==
    /\ m = Settle(initVM(ZeroMachine(FALSE), InitialNextGC))
    /\ sess = [session |-> 0, line |-> 0]
    /\ shadow = [same |-> TRUE]

NextGC ==
    \/ \E chars \in {<<97>>, <<98>>} : CopyString(chars)
    \/ Concatenate
    \/ Pop

SpecGC == InitGC /\ [][NextGC]_vars

\* C2: once collectGarbage has run, every object that is a root or is
\* reachable from a root is still allocated, and no object that was
\* unreachable when a collection began is still allocated after it.
C2_CollectionKeepsReachable ==
    m.gc.runs > 0 =>
        /\ \A o \in Reachable(m) : ~m.heap[o].freed
        /\ m.gc.lost = {}
        /\ m.gc.kept = {}
        /\ m.ub = ""

\* C3: no two allocated strings have the same bytes, every allocated string
\* is a key of the intern table exactly once, a string the program holds is
\* allocated, and copyString and takeString return the allocated string of
\* the same bytes when there is one.
C3_StringsInterned ==
    LET strings == {o \in 1..Len(m.heap) : m.heap[o].type = "OBJ_STRING"}
        live == {o \in strings : ~m.heap[o].freed}
        slots(o) == {i \in 1..m.vm.strings.capacity :
                        m.vm.strings.entries[i].key = o}
    IN  /\ \A o \in strings \cap Reachable(m) : o \in live
        /\ \A o \in live : Cardinality(slots(o)) = 1
        /\ \A a, b \in live : m.heap[a].chars = m.heap[b].chars => a = b
        /\ shadow.same

\* the keys of the intern table
InternKeys ==
    {m.vm.strings.entries[i].key : i \in 1..m.vm.strings.capacity} \ {NULL}

\* the strings that were released
FreedStrings ==
    {o \in 1..Len(m.heap) : m.heap[o].type = "OBJ_STRING" /\ m.heap[o].freed}

\* C26: the intern table never dangles: once a collection has run, every
\* key of vm.strings is a string that is still allocated, and a string
\* that was released is not what tableFindString finds for its bytes.
C26_InternTableNeverDangles ==
    m.gc.runs > 0 =>
        /\ InternKeys \cap FreedStrings = {}
        /\ \A o \in FreedStrings :
              tableFindString(m.heap, m.vm.strings, m.heap[o].chars,
                              m.heap[o].hash) # o

\* C28: reallocate starts a collection exactly when an allocation request
\* has left bytesAllocated above nextGC: never when it releases memory, and
\* always when it allocates, so that between two operations bytesAllocated
\* is not above nextGC; and when a collection completes nextGC is twice
\* the bytesAllocated of that moment.
C28_CollectionWhenAllocationExceeds ==
    /\ ~m.gc.released
    /\ m.ub = "" => m.vm.bytesAllocated <= m.vm.nextGC
    /\ m.gc.last.nextGC = 2 * m.gc.last.bytesAllocated

(***************************************************************************)
(* Calls of properties.  The compiler emits no class instructions, so the  *)
(* script frame of a program that defines two functions executes them      *)
(* here one by one, as run() does once their operands are read: OP_CLASS,  *)
(* OP_METHOD, OP_CALL of the class, OP_SET_PROPERTY, and then OP_INVOKE    *)
(* beside OP_GET_PROPERTY, the arguments and OP_CALL.                      *)
(***************************************************************************)
\* the names of properties: a, b
PropertyNames == {<<97>>, <<98>>}

\* the values stored to fields: a number, the functions f and g, clock
FieldValues ==
    {NUMBER_VAL(1), Global(m, <<102>>).value, Global(m, <<103>>).value,
     Global(m, <<99, 108, 111, 99, 107>>).value}

Building == m.ub = "" /\ m.running

\* The statements that build classes and instances, each as the set of the
\* instruction sequences the machine can execute for it.
\* OP_CLASS A
DeclareClass ==
    IF m.vm.stackTop = 1
    THEN {<<[op |-> "OP_CLASS", name |-> <<65>>]>>}
    ELSE {}

\* OP_GET_GLOBAL fn; OP_METHOD name
DefineMethod ==
    IF IS_OBJ(peek(m, 0)) /\ m.heap[peek(m, 0).obj].type = "OBJ_CLASS"
    THEN {<<[op |-> "OP_GET_GLOBAL", name |-> fn],
            [op |-> "OP_METHOD", name |-> name]>> :
             name \in PropertyNames, fn \in {<<102>>, <<103>>}}
    ELSE {}

\* OP_CALL 0 with the class as the callee
Instantiate ==
    IF IS_OBJ(peek(m, 0)) /\ m.heap[peek(m, 0).obj].type = "OBJ_CLASS"
    THEN {<<[op |-> "OP_CALL", argCount |-> 0]>>}
    ELSE {}

\* the instance again, the value, OP_SET_PROPERTY name, OP_POP
SetProperty ==
    IF IS_INSTANCE(m, peek(m, 0))
    THEN {<<[op |-> "OP_GET_LOCAL", slot |-> m.vm.stackTop - 1],
            [op |-> "OP_CONSTANT", value |-> value],
            [op |-> "OP_SET_PROPERTY", name |-> name],
            [op |-> "OP_POP"]>> :
             name \in PropertyNames, value \in FieldValues}
    ELSE {}

\* run() executes one of these statements
Statement ==
    /\ Building
    /\ \E code \in DeclareClass \cup DefineMethod \cup Instantiate
                        \cup SetProperty :
          m' = Settle(Execute(m, code))
    /\ UNCHANGED <<sess, shadow>>

\* With the receiver on top of the stack: the arguments and OP_INVOKE name
\* argCount on one machine; OP_GET_PROPERTY name, the arguments and OP_CALL
\* argCount on another.  shadow keeps the outcomes of both.
InvokeOrCall(name, argCount) ==
    /\ Building
    /\ shadow' = InvokeAndCall(m, name, argCount)
    /\ UNCHANGED <<m, sess>>

InitInvoke ==
    /\ m = Settle(Started(InvokeSetup))
    /\ sess = [session |-> 0, line |-> 0]
    /\ shadow = [compared |-> FALSE]

NextInvoke ==
    \/ Statement
    \/ \E name \in PropertyNames, argCount \in 0..1 :
          InvokeOrCall(name, argCount)

SpecInvoke == InitInvoke /\ [][NextInvoke]_vars

\* the closure a call entered last, and slot 0 of its frame
Entered(outcome) == outcome.frames[outcome.frameCount].closure

SlotZero(outcome) ==
    outcome.stack[outcome.frames[outcome.frameCount].slots + 1]

\* the value is a closure of argCount parameters
ClosureOfArity(value, argCount) ==
    /\ IS_OBJ(value)
    /\ m.heap[value.obj].type = "OBJ_CLOSURE"
    /\ m.heap[m.heap[value.obj].function].arity = argCount

\* C14: for every receiver, name and argument count OP_INVOKE leaves the
\* frame stack, the stack contents and height and the error outcome as
\* OP_GET_PROPERTY, the arguments and OP_CALL leave them; a field of that
\* name is called as an ordinary value before any method, otherwise the
\* method of the class is called with the receiver in slot 0.
C14_InvokeIsGetPropertyAndCall ==
    shadow.compared =>
        /\ shadow.invoke = shadow.call
        /\ (shadow.field.found
               /\ ClosureOfArity(shadow.field.value, shadow.argCount))
              => /\ shadow.invoke.running
                 /\ Entered(shadow.invoke) = shadow.field.value.obj
                 /\ SlotZero(shadow.invoke) = shadow.field.value
        /\ (~shadow.field.found /\ shadow.method.found
               /\ ClosureOfArity(shadow.method.value, shadow.argCount))
              => /\ shadow.invoke.running
                 /\ Entered(shadow.invoke) = shadow.method.value.obj
                 /\ SlotZero(shadow.invoke) = shadow.receiver
        /\ (~shadow.field.found /\ ~shadow.method.found)
              => /\ ~shadow.invoke.running
                 /\ shadow.invoke.result = "INTERPRET_RUNTIME_ERROR"

\* C14 at work: a method was called on an instance that has a field of
\* another name, with one argument
C14_Witness ==
    /\ shadow.compared
    /\ shadow.argCount = 1
    /\ ~shadow.field.found
    /\ shadow.method.found
    /\ shadow.invoke.running
    /\ shadow.invoke.frameCount = 2
    /\ m.heap[shadow.receiver.obj].fields.count = 1

(***************************************************************************)
(* Tracing.  On the machines that the class instructions build, with       *)
(* classes, instances and bound methods among the objects the roots reach, *)
(* blackenObject is applied to an object as traceReferences applies it to  *)
(* an object taken from the gray stack.                                    *)
(***************************************************************************)
\* Two programs of the script frame, statement by statement: a class with
\* a method, an instance of it with a closure in a field, and the bound
\* method that reading the method yields; and an instance with a number in
\* a field.
TracePrograms ==
    << << <<[op |-> "OP_CLASS", name |-> <<65>>]>>,
          <<[op |-> "OP_GET_GLOBAL", name |-> <<102>>],
            [op |-> "OP_METHOD", name |-> <<97>>]>>,
          <<[op |-> "OP_CALL", argCount |-> 0]>>,
          <<[op |-> "OP_GET_LOCAL", slot |-> 1],
            [op |-> "OP_GET_GLOBAL", name |-> <<103>>],
            [op |-> "OP_SET_PROPERTY", name |-> <<98>>],
            [op |-> "OP_POP"]>>,
          <<[op |-> "OP_GET_LOCAL", slot |-> 1],
            [op |-> "OP_GET_PROPERTY", name |-> <<97>>]>> >>,
       << <<[op |-> "OP_CLASS", name |-> <<65>>]>>,
          <<[op |-> "OP_CALL", argCount |-> 0]>>,
          <<[op |-> "OP_GET_LOCAL", slot |-> 1],
            [op |-> "OP_CONSTANT", value |-> NUMBER_VAL(1)],
            [op |-> "OP_SET_PROPERTY", name |-> <<97>>],
            [op |-> "OP_POP"]>>,
          <<[op |-> "OP_GET_LOCAL", slot |-> 1],
            [op |-> "OP_GET_PROPERTY", name |-> <<97>>]>> >> >>

\* the next statement of the program
Build ==
    /\ Building
    /\ sess.line < Len(TracePrograms[sess.session])
    /\ m' = Settle(Execute(m, TracePrograms[sess.session][sess.line + 1]))
    /\ sess' = [sess EXCEPT !.line = @ + 1]
    /\ shadow' = [object |-> NULL, marked |-> {}]

\* blackenObject(object); shadow keeps the object and the objects that are
\* marked afterwards
Blacken(object) ==
    /\ m.ub = ""
    /\ \E junk \in BOOLEAN :
          \E m2 \in {blackenObject([m EXCEPT !.junk = junk], object)} :
              shadow' = [object |-> object,
                         marked |-> {o \in 1..Len(m.heap) : IsMarked(m2, o)}]
    /\ UNCHANGED <<m, sess>>

InitTrace ==
    /\ m = Settle(Started(InvokeSetup))
    /\ sess \in [session : 1..Len(TracePrograms), line : {0}]
    /\ shadow = [object |-> NULL, marked |-> {}]

NextTrace ==
    \/ Build
    \/ \E object \in Reachable(m) : Blacken(object)

SpecTrace == InitTrace /\ [][NextTrace]_vars

\* C27: blackenObject marks every object that the blackened object refers
\* to, whatever its kind: the function and the upvalues of a closure, the
\* name and the constants of a function, the closed value of an upvalue,
\* the name and the methods of a class, the class and the fields of an
\* instance, the receiver and the method of a bound method.
C27_BlackenMarksReferences ==
    shadow.object # NULL => Refs(m.heap, shadow.object) \subseteq shadow.marked

\* C15: collectGarbage is never entered while another collectGarbage is in
\* progress: no step of a collection, the releases of sweep through
\* reallocate included, starts a nested collection.
C15_CollectionNotReentered == ~m.gc.nested

(***************************************************************************)
(* The compiler and the virtual machine on a machine whose first           *)
(* collection is due early: the lines of a session are compiled and run    *)
(* while collections begin inside compile() and run().                     *)
(***************************************************************************)
MaxNextGC == 16

\* the sessions that make strings, constants and globals
AllocSessions == {14, 15}

InitAlloc ==
    /\ \E k \in 0..MaxNextGC :
          m = Settle(initVM(ZeroMachine(FALSE), 512 + (16 * k)))
    /\ sess \in [session : AllocSessions, line : {0}]
    /\ shadow = InitShadow(m)

SpecAlloc == InitAlloc /\ [][NextVM]_vars

\* C16: whenever a collection begins, every object that a routine in
\* progress has allocated or received and still uses afterwards is reachable
\* from a root: the new string of allocateString, the constant of
\* addConstant, the operands of concatenate, the name and the native of
\* defineNative, the function of interpret.
C16_HeldObjectsRooted == m.gc.unrooted = {}

(***************************************************************************)
(* Jumps: the compiler and the virtual machine on sources whose branches   *)
(* and loop bodies are up to MaxBlock bytes of code long.                   *)
(***************************************************************************)
MaxBlock == 65540

\* the lengths of the code "..." stands for: none, a few bytes, about 256
\* bytes and about UINT16_MAX bytes
BlockSizes ==
    {0, 2, 3} \cup 249..256 \cup (MaxBlock - 32)..MaxBlock

\* the sessions that jump over "..."
JumpSessions == 16..19

InitJump ==
    /\ \E n \in BlockSizes :
          m = [Settle(initVM(ZeroMachine(FALSE), 1024 * 1024))
                  EXCEPT !.ellipsis = n]
    /\ sess \in [session : JumpSessions, line : {0}]
    /\ shadow = InitShadow(m)

SpecJump == InitJump /\ [][NextVM]_vars

\* the distance a jump operand has to encode
Distance(jump) ==
    IF jump.routine = "emitLoop" THEN jump.operand + 2 - jump.target
    ELSE jump.target - jump.operand - 2

\* the jumps patchJump and emitLoop have written
JumpsWritten == {m.jumps[i] : i \in 1..Len(m.jumps)}

\* the jump written for the instruction the last step executed
JumpExecuted ==
    {jump \in JumpsWritten :
        /\ jump.function = m.heap[ExecutingFrame.closure].function
        /\ jump.operand = ExecutingFrame.ip + 1}

\* the last step executed a jump and took it
JumpTaken ==
    /\ Executed
    /\ \/ shadow.before.op \in {"OP_JUMP", "OP_LOOP"}
       \/ shadow.before.op = "OP_JUMP_IF_FALSE" /\ isFalsey(TopBefore)

\* C30: every jump operand written by the compiler decodes at run time to
\* the intended target: OP_JUMP and a taken OP_JUMP_IF_FALSE leave ip at
\* the position that was the count of the chunk when patchJump patched
\* their operand, OP_LOOP leaves ip at the loopStart emitLoop was given; a
\* distance above UINT16_MAX is reported as a compile error (with its own
\* diagnostic unless the parser is in panic mode after an earlier one), and
\* code with such a jump is never run.
C30_JumpsLandOnTarget ==
    /\ JumpTaken =>
          /\ Cardinality(JumpExecuted) = 1
          /\ \A jump \in JumpExecuted :
                /\ m.vm.frames[m.vm.frameCount].ip = jump.target
                /\ (jump.routine = "emitLoop") = (shadow.before.op = "OP_LOOP")
    /\ \A jump \in JumpsWritten :
          /\ Distance(jump) >= 0
          /\ Distance(jump) > UINT16_MAX =>
                /\ jump.hadError
                /\ jump.said = IF jump.panicMode THEN <<>>
                               ELSE IF jump.routine = "emitLoop"
                               THEN <<"Loop body too large.">>
                               ELSE <<"Too much code to jump over.">>
                /\ ~m.running
                /\ sess.line >= 1 => m.result = "INTERPRET_COMPILE_ERROR"
          /\ Distance(jump) <= UINT16_MAX => jump.said = <<>>

\* C30 at work: OP_LOOP has jumped back over UINT16_MAX bytes, the longest
\* distance an operand holds
C30_Witness ==
    /\ JumpTaken
    /\ shadow.before.op = "OP_LOOP"
    /\ \E jump \in JumpExecuted : Distance(jump) = UINT16_MAX

(***************************************************************************)
(* Statements and the stack, under SpecVM.                                 *)
(***************************************************************************)
\* the spans the executing frame has entered and is leaving
SpansLeft ==
    IF m.running /\ m.ub = ""
    THEN {e \in shadow.entered : /\ e.frame = m.vm.frameCount
                                 /\ e.span \in SpansAt(m, "end")}
    ELSE {}

\* C31: every statement is stack-neutral on every control path: when a
\* frame leaves the code of an expression statement, a print, if, while or
\* for statement or a block, stackTop is what it was when the frame entered
\* that code, whatever its conditions evaluated to; `and` and `or` leave
\* one value where their left operand was, on both paths.
C31_StatementsStackNeutral ==
    \A e \in SpansLeft : m.vm.stackTop = e.height

\* C31 at work: a for statement with initializer, condition and increment
\* is left after two rounds
C31_Witness ==
    /\ Len(m.stdout) = 2
    /\ \E e \in SpansLeft : m.spans[e.span].kind = "forStatement"

(***************************************************************************)
(* Calls of classes: on the script frame of `fun f() {} fun g(a) {}` a     *)
(* class is declared, given methods (init among them, or not) and called   *)
(* with 0 to MaxArguments arguments.                                       *)
(***************************************************************************)
MaxArguments == 2

\* OP_GET_GLOBAL fn; OP_METHOD init
DefineInitializer ==
    IF IS_OBJ(peek(m, 0)) /\ m.heap[peek(m, 0).obj].type = "OBJ_CLASS"
    THEN {<<[op |-> "OP_GET_GLOBAL", name |-> fn],
            [op |-> "OP_METHOD", name |-> <<105, 110, 105, 116>>]>> :
             fn \in {<<102>>, <<103>>}}
    ELSE {}

\* run() executes a statement that declares a class or defines a method
ClassStatement ==
    /\ Building
    /\ \E code \in DeclareClass \cup DefineMethod \cup DefineInitializer :
          m' = Settle(Execute(m, code))
    /\ shadow' = [called |-> FALSE]
    /\ UNCHANGED sess

\* the arguments and OP_CALL argCount with the class as the callee; shadow
\* keeps the machine before the call
CallClass(argCount) ==
    /\ Building
    /\ IS_OBJ(peek(m, 0)) /\ m.heap[peek(m, 0).obj].type = "OBJ_CLASS"
    /\ m' = Settle(Execute(m, Arguments(argCount)
                                 \o <<[op |-> "OP_CALL",
                                       argCount |-> argCount]>>))
    /\ shadow' = [called |-> TRUE, argCount |-> argCount, before |-> m]
    /\ UNCHANGED sess

InitClass ==
    /\ m = Settle(Started(InvokeSetup))
    /\ sess = [session |-> 0, line |-> 0]
    /\ shadow = [called |-> FALSE]

NextClass ==
    \/ ClassStatement
    \/ \E argCount \in 0..MaxArguments : CallClass(argCount)

SpecClass == InitClass /\ [][NextClass]_vars

\* the class that was called, and its method init
ClassCalled == shadow.before.vm.stack[shadow.before.vm.stackTop].obj

InitializerCalled ==
    tableGet(shadow.before.heap, shadow.before.heap[ClassCalled].methods,
             shadow.before.vm.initString)

\* the index in vm.stack of the callee slot, stackTop - argCount - 1
CalleeSlot == shadow.before.vm.stackTop - 1

\* the call has reported a runtime error with the message
CallFailed(message) ==
    /\ ~m.running
    /\ m.result = "INTERPRET_RUNTIME_ERROR"
    /\ m.stderr = Append(shadow.before.stderr, message)
    /\ m.vm.frameCount = 0
    /\ m.vm.stackTop = 0

\* C32: calling a class with argCount arguments replaces the callee slot
\* with a new instance of that class; if the class has a method init, that
\* method is called with the arguments, subject to its arity check;
\* otherwise the call succeeds without a new frame when argCount is 0 and
\* fails with a runtime error when it is not.
C32_ClassCall ==
    shadow.called =>
        LET argCount == shadow.argCount
            instance == m.vm.stack[CalleeSlot + 1]
            initializer == InitializerCalled
            arity == m.heap[m.heap[initializer.value.obj].function].arity
        IN  /\ m.ub = ""
            /\ IS_INSTANCE(m, instance)
            /\ instance.obj > Len(shadow.before.heap)
            /\ m.heap[instance.obj].klass = ClassCalled
            /\ m.heap[instance.obj].fields = EmptyTable
            /\ m.heap[ClassCalled] = shadow.before.heap[ClassCalled]
            /\ IF initializer.found
               THEN IF argCount = arity
                    THEN /\ m.running
                         /\ m.vm.frameCount = shadow.before.vm.frameCount + 1
                         /\ m.vm.frames[m.vm.frameCount] =
                               [closure |-> initializer.value.obj, ip |-> 0,
                                slots |-> CalleeSlot]
                         /\ m.vm.stackTop = CalleeSlot + 1 + argCount
                         /\ m.stderr = shadow.before.stderr
                    ELSE CallFailed("Expected %d arguments but got %d.")
               ELSE IF argCount = 0
                    THEN /\ m.running
                         /\ m.vm.frameCount = shadow.before.vm.frameCount
                         /\ m.vm.frames = shadow.before.vm.frames
                         /\ m.vm.stackTop = CalleeSlot + 1
                         /\ m.stderr = shadow.before.stderr
                    ELSE CallFailed("Expected 0 arguments but got %d.")

\* C32 at work: the class has the initializer g of one parameter and is
\* called with one argument
C32_Witness ==
    /\ shadow.called
    /\ shadow.argCount = 1
    /\ InitializerCalled.found
    /\ m.vm.frameCount = shadow.before.vm.frameCount + 1
    /\ m.vm.stack[CalleeSlot + 2] = NUMBER_VAL(1)

(***************************************************************************)
(* Inheritance: the classes A and B are the locals 1 and 2 of the script   *)
(* frame of `fun f() {} fun g(a) {}`.  A gets its methods, then            *)
(* `class B < A` is executed as the compiler of the book lays it out (the  *)
(* superclass, the subclass, OP_INHERIT, the methods of B, OP_POP for the  *)
(* local super), with a number or a function in place of A as well.        *)
(***************************************************************************)
MethodNames == {<<97>>, <<98>>, <<99>>}

SuperclassSlot == 1
SubclassSlot == 2

\* a method of the class in the slot: the class, OP_GET_GLOBAL fn,
\* OP_METHOD name, OP_POP
MethodOf(slot) ==
    {<<[op |-> "OP_GET_LOCAL", slot |-> slot],
       [op |-> "OP_GET_GLOBAL", name |-> fn],
       [op |-> "OP_METHOD", name |-> name],
       [op |-> "OP_POP"]>> :
        name \in MethodNames, fn \in {<<102>>, <<103>>}}

\* the class body that run() can execute next: of A before the
\* inheritance, of B after it
ClassBody ==
    IF shadow.inherited THEN MethodOf(SubclassSlot)
    ELSE MethodOf(SuperclassSlot)

\* the methods of the subclass's own body so far, by name
Own(own, code) ==
    IF code[1].slot = SubclassSlot
    THEN [name \in DOMAIN own \cup {code[3].name} |->
             IF name = code[3].name THEN Global(m, code[2].name).value
             ELSE own[name]]
    ELSE own

BodyStatement ==
    /\ Building
    /\ \E code \in ClassBody :
          /\ m' = Settle(Execute(m, code))
          /\ shadow' = [shadow EXCEPT !.own = Own(@, code), !.now = FALSE]
    /\ UNCHANGED sess

\* what is in the superclass position: the class A, a number, the function f
Superclasses ==
    {<<[op |-> "OP_GET_LOCAL", slot |-> SuperclassSlot]>>,
     <<[op |-> "OP_CONSTANT", value |-> NUMBER_VAL(1)]>>,
     <<[op |-> "OP_GET_GLOBAL", name |-> <<102>>]>>}

\* the superclass, the subclass, OP_INHERIT; shadow keeps the machine
\* before them
Inherit(superclass) ==
    /\ Building
    /\ ~shadow.inherited
    /\ m' = Settle(Execute(m, superclass
                                 \o <<[op |-> "OP_GET_LOCAL",
                                       slot |-> SubclassSlot],
                                      [op |-> "OP_INHERIT"]>>))
    /\ shadow' = [inherited |-> TRUE, now |-> TRUE, before |-> m,
                  own |-> <<>>]
    /\ UNCHANGED sess

InitInherit ==
    /\ m = Settle(Execute(Started(InvokeSetup),
                          <<[op |-> "OP_CLASS", name |-> <<65>>],
                            [op |-> "OP_CLASS", name |-> <<66>>]>>))
    /\ sess = [session |-> 0, line |-> 0]
    /\ shadow = [inherited |-> FALSE, now |-> FALSE, before |-> m,
                 own |-> <<>>]

NextInherit ==
    \/ BodyStatement
    \/ \E superclass \in Superclasses : Inherit(superclass)

SpecInherit == InitInherit /\ [][NextInherit]_vars

\* the classes in the two slots, and the methods of a class in a machine
Superclass == m.vm.stack[SuperclassSlot + 1].obj
Subclass == m.vm.stack[SubclassSlot + 1].obj

MethodsOf(mm, klass) ==
    {[name |-> mm.heap[e.key].chars, value |-> e.value] :
        e \in {x \in {mm.heap[klass].methods.entries[i] :
                         i \in 1..mm.heap[klass].methods.capacity} :
                  x.key # NULL}}

MethodNamed(mm, klass, name) ==
    {e.value : e \in {x \in MethodsOf(mm, klass) : x.name = name}}

\* the value OP_INHERIT found in the superclass position
SuperclassValue == m.vm.stack[shadow.before.vm.stackTop + 1]

SuperclassIsClass ==
    IS_OBJ(SuperclassValue) /\ m.heap[SuperclassValue.obj].type = "OBJ_CLASS"

\* C33: OP_INHERIT with a non-class value in the superclass position fails
\* with a runtime error and copies nothing; with a class it copies every
\* method of the superclass into the subclass's method table, leaves the
\* superclass's method table unchanged and pops only the subclass, so that
\* the superclass remains on the stack; methods defined on the subclass by
\* later OP_METHOD instructions replace inherited ones of the same name.
C33_Inherit ==
    shadow.inherited =>
        /\ m.ub = ""
        /\ m.heap[Superclass].methods
              = shadow.before.heap[Superclass].methods
        /\ IF SuperclassIsClass
           THEN /\ m.running
                /\ m.vm.stackTop = shadow.before.vm.stackTop + 1
                /\ SuperclassValue = OBJ_VAL(Superclass)
                /\ \A name \in MethodNames :
                      MethodNamed(m, Subclass, name) =
                          IF name \in DOMAIN shadow.own
                          THEN {shadow.own[name]}
                          ELSE MethodNamed(shadow.before, Superclass, name)
                /\ shadow.now =>
                      MethodsOf(m, Subclass)
                          = MethodsOf(shadow.before, Superclass)
           ELSE /\ ~m.running
                /\ m.result = "INTERPRET_RUNTIME_ERROR"
                /\ m.stderr = Append(shadow.before.stderr,
                                     "Superclass must be a class.")
                /\ m.heap[Subclass] = shadow.before.heap[Subclass]
                /\ MethodsOf(m, Subclass) = {}

\* C33 at work: B has inherited a and b from A and then defined its own a
C33_Witness ==
    /\ shadow.inherited
    /\ SuperclassIsClass
    /\ DOMAIN shadow.own = {<<97>>}
    /\ MethodNamed(shadow.before, Superclass, <<97>>)
          = {Global(m, <<103>>).value}
    /\ MethodNamed(m, Subclass, <<97>>) = {Global(m, <<102>>).value}
    /\ MethodNamed(m, Subclass, <<98>>) = {Global(m, <<103>>).value}

(***************************************************************************)
(* Scopes: interpret() is given a block, or a function with the parameter  *)
(* a, of up to MaxItems of the items below.                                *)
(***************************************************************************)
MaxItems == 5

ScopeItems ==
    {<<"{">>, <<"}">>, <<"var", "a", ";">>, <<"var", "b", ";">>,
     <<"print", "a", ";">>}

ScopeOpenings ==
    {<<"{">>, <<"fun", "f", "(", "a", ")", "{">>}

RECURSIVE Flatten(_)
Flatten(items) ==
    IF items = <<>> THEN <<>> ELSE Head(items) \o Flatten(Tail(items))

ScopeSources ==
    {opening \o Flatten(items) :
        opening \in ScopeOpenings,
        items \in UNION {[1..n -> ScopeItems] : n \in 0..MaxItems}}

InitScope ==
    /\ m = Settle(initVM(ZeroMachine(FALSE), 1024 * 1024))
    /\ sess \in [lines : {<<src>> : src \in ScopeSources}, line : {0}]
    /\ shadow = InitShadow(m)

SpecScope == InitScope /\ [][NextCompile]_vars

\* the locals of the name among those a routine was given, by index
LocalsNamed(named) ==
    {i \in 1..Len(named.locals) : named.locals[i].name = named.name}

\* the scope depth a local was declared at
DeclaredAt(named, i) ==
    IF named.locals[i].depth = -1 THEN named.scopeDepth
    ELSE named.locals[i].depth

\* C34: within one function a local name can be declared at most once per
\* scope depth: declaring a name that is already a local of the current
\* scope depth is a compile error, while declaring the same name in a
\* nested scope is accepted, and resolveLocal then returns the innermost
\* (highest-slot) declaration until that scope ends.
C34_OncePerScopeDepth ==
    \A n \in 1..Len(m.names) :
        LET named == m.names[n]
            same == LocalsNamed(named)
            message == "Already a variable with this name in this scope."
        IN  /\ \A i \in 1..Len(named.locals) :
                  DeclaredAt(named, i) <= named.scopeDepth
            /\ named.routine = "declareVariable" =>
                  IF \E i \in same : DeclaredAt(named, i) = named.scopeDepth
                  THEN named.hadError
                       /\ (named.panicMode \/ named.said = <<message>>)
                  ELSE \A i \in 1..Len(named.said) : named.said[i] # message
            /\ named.routine = "resolveLocal" =>
                  IF same = {} THEN named.ret = -1
                  ELSE /\ named.ret + 1 \in same
                       /\ \A i \in same :
                             /\ i <= named.ret + 1
                             /\ DeclaredAt(named, i)
                                   <= DeclaredAt(named, named.ret + 1)

\* C34 at work: a is declared in a block and again in a nested block, where
\* it resolves to the inner local; after the nested block it resolves to
\* the outer one
C34_Witness ==
    \E n1, n2 \in 1..Len(m.names) :
        /\ n1 < n2
        /\ m.names[n1].routine = "resolveLocal"
        /\ m.names[n2].routine = "resolveLocal"
        /\ Cardinality(LocalsNamed(m.names[n1])) = 2
        /\ m.names[n1].ret = 2
        /\ m.names[n2].ret = 1
        /\ m.names[n2].name = <<97>>
        /\ ~m.names[n2].hadError

(***************************************************************************)
(* Initializers: interpret() is given a block of up to MaxItems of the     *)
(* items below, with variables that read themselves or another variable    *)
(* in their initializer and functions declared in the block.               *)
(***************************************************************************)
InitializerItems ==
    {<<"{">>, <<"}">>, <<"var", "a", ";">>, <<"var", "a", "=", "a", ";">>,
     <<"var", "b", "=", "a", ";">>, <<"fun", "a", "(", "b", ")", "{">>}

InitializerSources ==
    {<<"{">> \o Flatten(items) :
        items \in UNION {[1..n -> InitializerItems] : n \in 0..MaxItems}}

InitInitializer ==
    /\ m = Settle(initVM(ZeroMachine(FALSE), 1024 * 1024))
    /\ sess \in [lines : {<<src>> : src \in InitializerSources}, line : {0}]
    /\ shadow = InitShadow(m)

SpecInitializer == InitInitializer /\ [][NextCompile]_vars

\* C35: at every point of compilation a local has depth -1 exactly while its
\* own initializer is being compiled (parameters and function names are
\* marked initialized before any code that can read them is compiled), and
\* resolving a name to a local whose depth is -1 reports the compile error
\* "Can't read local variable in its own initializer."
C35_UnmarkedWhileInitializing ==
    /\ \A seen \in m.depths : seen.unmarked = seen.initializing
    /\ \A n \in 1..Len(m.names) :
          LET named == m.names[n]
              message == "Can't read local variable in its own initializer."
          IN  named.routine = "resolveLocal" =>
                  IF named.ret >= 0 /\ named.locals[named.ret + 1].depth = -1
                  THEN named.hadError
                       /\ (named.panicMode \/ named.said = <<message>>)
                  ELSE named.said = <<>>

\* C35 at work: inside the function a, declared in a block, `var a = a;`
\* has reported the error, and code was written while a local had depth -1
C35_Witness ==
    /\ \E n \in 1..Len(m.names) :
          /\ m.names[n].routine = "resolveLocal"
          /\ m.names[n].ret = 2
          /\ m.names[n].locals[3].depth = -1
          /\ m.names[n].said
                = <<"Can't read local variable in its own initializer.">>
    /\ \E seen \in m.depths : seen.unmarked = {<<2, 3>>}
    /\ \E seen \in m.depths : seen.unmarked = {<<1, 3>>}

\* C36: at the start of every collection every object on the allocation
\* list has its mark bit clear: allocateObject creates objects unmarked and
\* sweep clears the mark bit of every survivor.  m.gc.unwritten says that a
\* collection began with an object whose isMarked was never written,
\* m.gc.marked that one began with an object whose isMarked was true.
C36_MarkBitsClearAtStart ==
    /\ ~m.gc.unwritten
    /\ ~m.gc.marked

\* the upvalues that a reachable object references
ReachableUpvalues ==
    {u \in Reachable(m) : m.heap[u].type = "OBJ_UPVALUE"}

\* C37: after any sequence of interpret calls, those that end in a runtime
\* error included, every upvalue referenced by a reachable closure is
\* either closed or a member of the open-upvalue list with its slot below
\* stackTop: none points at a stack slot that has been discarded.
C37_NoUpvalueIntoDiscardedSlot ==
    Returned =>
        \A u \in ReachableUpvalues :
            \/ m.heap[u].location = ClosedCell
            \/ /\ \E i \in 1..Len(OpenUpvalues) : OpenUpvalues[i] = u
               /\ m.heap[u].location < m.vm.stackTop

\* C38: the string held in vm.initString is never freed by a collection
\* between initVM and freeVM.
C38_InitStringLive ==
    /\ m.vm.initString # NULL
    /\ ~m.heap[m.vm.initString].freed

\* the tables of the machine
Tables == {m.vm.globals, m.vm.strings}

\* the slots of a table that are truly empty: no key and the value nil
EmptySlots(t) == {i \in 1..t.capacity : t.entries[i] = Entry(NULL, NIL_VAL)}

\* strings looked up in the tables: one that no session makes, one that a
\* concatenation can make
ProbedChars == {<<122>>, <<97, 97>>}

\* C39: every probe loop of the hash table terminates: in every reachable
\* table state with capacity > 0 at least one slot is truly empty, because
\* count, which includes tombstones, never exceeds 0.75 * capacity after
\* tableSet, and findEntry and tableFindString are never run on a table of
\* capacity 0 (tableGet, tableDelete and tableFindString return at once
\* when count is 0, and tableSet grows such a table first).
C39_ProbesTerminate ==
    \A t \in Tables :
        /\ t.count * 4 <= t.capacity * 3
        /\ t.capacity > 0 => EmptySlots(t) # {}
        /\ t.capacity = 0 => t.count = 0 /\ tableMustGrow(t)
        /\ t.capacity > 0 =>
              /\ \A key \in TableKeys :
                    findEntry(m.heap, t.entries, t.capacity, key) # -1
              /\ \A chars \in ProbedChars :
                    tableFindString(m.heap, t, chars, hashString(chars)) # -1

\* C39 at work: the table of the globals is at its maximal load with a
\* tombstone among its slots, and tableSet has just stored a key
C39_Witness ==
    /\ shadow.op = "tableSet"
    /\ m.vm.globals.count * 4 = m.vm.globals.capacity * 3
    /\ Tombstones(m.vm.globals) # {}
    /\ Cardinality(EmptySlots(m.vm.globals)) * 4 = m.vm.globals.capacity

\* C40: whenever interpret returns INTERPRET_OK the VM is back in its idle
\* state: the operand stack is empty, frameCount is 0 and the open-upvalue
\* list is empty; so every interpret call on one VM starts from an empty
\* stack, whatever the calls before it returned.
C40_IdleAfterOk ==
    /\ (Returned /\ m.result = "INTERPRET_OK") =>
          /\ m.vm.stackTop = 0
          /\ m.vm.frameCount = 0
          /\ m.vm.openUpvalues = NULL
    /\ shadow.before.op = "interpret" =>
          /\ shadow.before.vm.stackTop = 0
          /\ shadow.before.vm.frameCount = 0

\* C40 at work: a line has returned INTERPRET_OK after it closed an upvalue
\* and printed
C40_Witness ==
    /\ Returned
    /\ m.result = "INTERPRET_OK"
    /\ m.stdout # <<>>
    /\ \E u \in 1..Len(m.heap) :
          /\ m.heap[u].type = "OBJ_UPVALUE"
          /\ m.heap[u].location = ClosedCell

====
